---- MODULE Spec2Model ----
(***************************************************************************)
(* A model of the koto runtime core: the string iterators (Bytes, Lines,   *)
(* Split, SplitWith), the functions of core.iterator, the core.map         *)
(* operations sort, update and extend, the test objects, and the Markov    *)
(* chain of the poetry example.                                            *)
(*                                                                         *)
(* Strings are sequences of bytes.  A byte is written as a TLA+ string:    *)
(* "a", ",", "LF" (0x0A), "CR" (0x0D), and "C3" "A9", the two bytes of the *)
(* UTF-8 encoding of U+00E9.  Byte offsets are 0-based as in the source;   *)
(* Slice(s, a, b) is the source's s[a..b].                                 *)
(***************************************************************************)
EXTENDS Integers, Sequences, FiniteSets, TLC

VARIABLES
    str_iter,      \* the string iterator object: its kind and its fields
    str_output,    \* what the last next() call on str_iter returned
    str_calls,     \* the graphemes the last next() call passed to the predicate
    str_yielded,   \* every Some(..) output str_iter has returned so far, in order
    str_copy,      \* the iterator make_copy returned for str_iter, and what it has done
    lib_call,      \* the core.iterator call being made: function, arguments, handle
    lib_outcome,   \* what the call returned and what it did on the way
    map_entries,   \* the entries of the receiver map, in order
    map_call,      \* the core.map call in progress or last made, and where it is
    map_sort,      \* the locals of map.sort: sort position, cache, error, comparator log
    map_result,    \* what the last finished core.map call returned
    map_order,     \* the keys the map holds, in the order they were first inserted
    obj_iter,      \* the TestIterator object behind an iterator handle
    obj_yielded,   \* what each next / next_back call on the handle returned, in order
    scr_heap,      \* the TestObject instances a script has made, in order of creation
    scr_env,       \* the instance each name of the script is bound to, 0 when unbound
    scr_last,      \* the statement the script ran last
    scr_count,     \* how many statements the script has run
    scr_result,    \* the value of the last comparison the script evaluated
    nxt_iterable,  \* the iterable value iterator.next is called on, as it was made
    nxt_value,     \* that value as it is now
    nxt_results,   \* what each iterator.next call on it returned, in order
    poetry_links,  \* Poetry.links: for each key, in order of insertion, its successors
    poetry_previous, \* Poetry.previous: <<>> for None, <<word>> for Some(word)
    poetry_added,  \* how many sources have been added
    poetry_last    \* the last call made on the Poetry and what came of it

str_vars == <<str_iter, str_output, str_calls, str_yielded, str_copy>>
lib_vars == <<lib_call, lib_outcome>>
map_vars == <<map_entries, map_call, map_sort, map_result, map_order>>
scr_vars == <<scr_heap, scr_env, scr_last, scr_count, scr_result>>
obj_vars == <<obj_iter, obj_yielded, scr_heap, scr_env, scr_last, scr_count, scr_result>>
nxt_vars == <<nxt_iterable, nxt_value, nxt_results>>
poetry_vars == <<poetry_links, poetry_previous, poetry_added, poetry_last>>

vars == <<str_iter, str_output, str_calls, str_yielded, str_copy, lib_call, lib_outcome,
          map_entries, map_call, map_sort, map_result, map_order,
          obj_iter, obj_yielded, scr_heap, scr_env, scr_last, scr_count, scr_result,
          nxt_iterable, nxt_value, nxt_results,
          poetry_links, poetry_previous, poetry_added, poetry_last>>

----------------------------------------------------------------------------
(* Bounds *)

\* longest input string, in characters
MaxChars == 3
\* longest Split pattern, in characters
MaxPatternChars == 2
\* most next() calls that return Some(..) on one string iterator
MaxYielded == 8
\* most outputs a scripted producer yields
MaxOutputs == 3

\* the most entries a map holds
MaxKeys == 3

\* the largest number a test object is made with
MaxStart == 3
\* the most next and next_back calls made on one handle
MaxObjectCalls == 5
\* the largest number a script statement has as its operand
MaxOperand == 2
\* the most statements a script runs
MaxStatements == 3
\* the most iterator.next calls made on one value
MaxNextCalls == 5
\* the most words a source added to a Poetry splits into
MaxWords == 3
\* the most sources added to one Poetry
MaxSources == 2

----------------------------------------------------------------------------
(* Strings *)

\* the characters inputs are built from, each as its UTF-8 byte sequence
CharA == <<"a">>
CharComma == <<",">>
CharLF == <<"LF">>
CharCR == <<"CR">>
CharEAcute == <<"C3", "A9">>

RECURSIVE StringsUpTo(_, _)
\* all strings of at most n characters drawn from chars
StringsUpTo(chars, n) ==
    IF n = 0 THEN {<<>>}
    ELSE LET shorter == StringsUpTo(chars, n - 1)
         IN  shorter \cup {s \o c : s \in shorter, c \in chars}

\* s[a..b] of the source: the bytes at offsets a, a+1, .., b-1
Slice(s, a, b) == SubSeq(s, a + 1, b)

\* does pat occur in hay at byte offset i
OccursAt(hay, pat, i) ==
    /\ i + Len(pat) <= Len(hay)
    /\ Slice(hay, i, i + Len(pat)) = pat

\* str::find: the offset of the leftmost occurrence of pat in hay, or -1 for
\* None.  The empty pattern is found at offset 0.
Find(hay, pat) ==
    IF \E i \in 0..Len(hay) : OccursAt(hay, pat, i)
    THEN CHOOSE i \in 0..Len(hay) :
            /\ OccursAt(hay, pat, i)
            /\ \A j \in 0..(i - 1) : ~OccursAt(hay, pat, j)
    ELSE -1

\* the byte length of the extended grapheme cluster that starts at offset i
\* of s: a two-byte UTF-8 character and the pair CR LF are one cluster each
GraphemeLen(s, i) ==
    IF s[i + 1] = "C3" THEN 2
    ELSE IF s[i + 1] = "CR" /\ i + 1 < Len(s) /\ s[i + 2] = "LF" THEN 2
    ELSE 1

----------------------------------------------------------------------------
(* Iterator outputs *)

None == [type |-> "None"]
\* no next() call has been made yet
NotCalled == [type |-> "NotCalled"]
Value(v) == [type |-> "Value", value |-> v]
Error(e) == [type |-> "Error", error |-> e]

\* what a predicate call can do: return Bool(true), Bool(false), a value that
\* is not a Bool, or raise
PredicateResults == {"true", "false", "non_bool", "raise"}

NoPredicate == <<>>

----------------------------------------------------------------------------
(* Bytes *)

BytesNext(it) ==
    IF it.index < Len(it.input)
    THEN [iter |-> [it EXCEPT !.index = it.index + 1],
          output |-> Value(<<it.input[it.index + 1]>>),
          calls |-> <<>>]
    ELSE [iter |-> it, output |-> None, calls |-> <<>>]

----------------------------------------------------------------------------
(* Lines *)

\* LinesNext with "\n" as the only terminator
LinesNext_LFOnly(it) ==
    LET start == it.start
        len == Len(it.input)
    IN  IF start < len
        THEN LET found == Find(Slice(it.input, start, len), <<"LF">>)
                 end == IF found >= 0 THEN start + found ELSE len
             IN  [iter |-> [it EXCEPT !.start = end + 1],
                  output |-> Value(Slice(it.input, start, end)),
                  calls |-> <<>>]
        ELSE [iter |-> it, output |-> None, calls |-> <<>>]

LinesNext(it) ==
    LET start == it.start
        len == Len(it.input)
    IN  IF start < len
        THEN LET remaining == Slice(it.input, start, len)
                 found == Find(remaining, <<"LF">>)
                 crlf == found > 0 /\ remaining[found] = "CR"
                 newline_bytes == IF crlf THEN 2 ELSE 1
                 end == IF found >= 0
                        THEN (IF crlf THEN start + found - 1 ELSE start + found)
                        ELSE len
             IN  [iter |-> [it EXCEPT !.start = end + newline_bytes],
                  output |-> Value(Slice(it.input, start, end)),
                  calls |-> <<>>]
        ELSE [iter |-> it, output |-> None, calls |-> <<>>]

----------------------------------------------------------------------------
(* Split *)

\* SplitNext that stops once the cursor reaches the end of the input
SplitNext_StopAtEnd(it) ==
    LET start == it.start
        len == Len(it.input)
    IN  IF start < len
        THEN LET found == Find(Slice(it.input, start, len), it.pattern)
                 end == IF found >= 0 THEN start + found ELSE len
             IN  [iter |-> [it EXCEPT !.start = end + Len(it.pattern)],
                  output |-> Value(Slice(it.input, start, end)),
                  calls |-> <<>>]
        ELSE [iter |-> it, output |-> None, calls |-> <<>>]

SplitNext(it) ==
    LET start == it.start
        len == Len(it.input)
    IN  IF start <= len
        THEN LET found == Find(Slice(it.input, start, len), it.pattern)
                 end == IF found >= 0 THEN start + found ELSE len
             IN  [iter |-> [it EXCEPT !.start = end + Len(it.pattern)],
                  output |-> Value(Slice(it.input, start, end)),
                  calls |-> <<>>]
        ELSE [iter |-> it, output |-> None, calls |-> <<>>]

----------------------------------------------------------------------------
(* SplitWith *)

RECURSIVE SplitWithScan_NonBoolIsFalse(_, _, _, _)
\* SplitWithScan that takes a result that is not a Bool for false
SplitWithScan_NonBoolIsFalse(it, pos, grapheme_len, calls) ==
    IF pos >= Len(it.input)
    THEN [status |-> "no_match", end |-> Len(it.input),
          grapheme_len |-> grapheme_len, calls |-> calls]
    ELSE LET glen == GraphemeLen(it.input, pos)
             x == Slice(it.input, pos, pos + glen)
             r == it.predicate[x]
             called == Append(calls, x)
         IN  CASE r = "true" ->
                    [status |-> "match", end |-> pos,
                     grapheme_len |-> glen, calls |-> called]
               [] r \in {"false", "non_bool"} ->
                    SplitWithScan_NonBoolIsFalse(it, pos + glen, glen, called)
               [] r = "raise" ->
                    [status |-> "raise", end |-> pos,
                     grapheme_len |-> glen, calls |-> called]

RECURSIVE SplitWithScan(_, _, _, _)
\* the for loop of SplitWith::next over the graphemes of input[start..]:
\* pos is the offset of the next grapheme, grapheme_len the length of the
\* last grapheme visited, calls the graphemes passed to the predicate so far
SplitWithScan(it, pos, grapheme_len, calls) ==
    IF pos >= Len(it.input)
    THEN [status |-> "no_match", end |-> Len(it.input),
          grapheme_len |-> grapheme_len, calls |-> calls]
    ELSE LET glen == GraphemeLen(it.input, pos)
             x == Slice(it.input, pos, pos + glen)
             r == it.predicate[x]
             called == Append(calls, x)
         IN  CASE r = "true" ->
                    [status |-> "match", end |-> pos,
                     grapheme_len |-> glen, calls |-> called]
               [] r = "false" ->
                    SplitWithScan(it, pos + glen, glen, called)
               [] r = "non_bool" ->
                    [status |-> "non_bool", end |-> pos,
                     grapheme_len |-> glen, calls |-> called]
               [] r = "raise" ->
                    [status |-> "raise", end |-> pos,
                     grapheme_len |-> glen, calls |-> called]

\* SplitWithNext that moves the cursor past the grapheme the predicate
\* failed on
SplitWithNext_AdvanceOnError(it) ==
    LET start == it.start
    IN  IF start < Len(it.input)
        THEN LET scan == SplitWithScan(it, start, 0, <<>>)
             IN  CASE scan.status = "non_bool" ->
                        [iter |-> [it EXCEPT !.start = scan.end + scan.grapheme_len],
                         output |-> Error(<<"string.split", "Expected a Bool from the match function">>),
                         calls |-> scan.calls]
                   [] scan.status = "raise" ->
                        [iter |-> [it EXCEPT !.start = scan.end + scan.grapheme_len],
                         output |-> Error(<<"string.split", "boom">>),
                         calls |-> scan.calls]
                   [] OTHER ->
                        [iter |-> [it EXCEPT !.start = scan.end + scan.grapheme_len],
                         output |-> Value(Slice(it.input, start, scan.end)),
                         calls |-> scan.calls]
        ELSE [iter |-> it, output |-> None, calls |-> <<>>]

SplitWithNext(it) ==
    LET start == it.start
    IN  IF start < Len(it.input)
        THEN LET scan == SplitWithScan(it, start, 0, <<>>)
             IN  CASE scan.status = "non_bool" ->
                        [iter |-> it,
                         output |-> Error(<<"string.split", "Expected a Bool from the match function">>),
                         calls |-> scan.calls]
                   [] scan.status = "raise" ->
                        [iter |-> it,
                         output |-> Error(<<"string.split", "boom">>),
                         calls |-> scan.calls]
                   [] OTHER ->
                        [iter |-> [it EXCEPT !.start = scan.end + scan.grapheme_len],
                         output |-> Value(Slice(it.input, start, scan.end)),
                         calls |-> scan.calls]
        ELSE [iter |-> it, output |-> None, calls |-> <<>>]

----------------------------------------------------------------------------
(* size_hint *)

\* A usize is written [wrapped |-> FALSE, n |-> k] for the number k and
\* [wrapped |-> TRUE, n |-> k] for 2^64 - k (k >= 1), the value a wrapping
\* subtraction leaves; 2^64 itself is beyond the integers TLC computes with.
Usize(k) == [wrapped |-> FALSE, n |-> k]

\* a - b on usize.  When b > a the subtraction overflows: a build with
\* overflow checks panics, a build without them wraps.  Both outcomes are
\* returned; panic is the flag of the first.
UsizeSub(a, b) ==
    IF b <= a
    THEN {[panic |-> FALSE, value |-> Usize(a - b)]}
    ELSE {[panic |-> TRUE, value |-> Usize(0)],
          [panic |-> FALSE, value |-> [wrapped |-> TRUE, n |-> b - a]]}

\* 1.min(u)
UsizeMin1(u) == IF u.wrapped \/ u.n >= 1 THEN Usize(1) ELSE Usize(0)

\* u <= k for a usize u and a number k far below 2^63
UsizeLeq(u, k) == ~u.wrapped /\ u.n <= k

BytesSizeHint(it) ==
    {[panic |-> r.panic, lower |-> r.value, upper |-> r.value] :
        r \in UsizeSub(Len(it.input), it.index)}

LinesSizeHint(it) ==
    {[panic |-> r.panic, lower |-> UsizeMin1(r.value), upper |-> r.value] :
        r \in UsizeSub(Len(it.input), it.start)}

SplitSizeHint(it) ==
    {[panic |-> r.panic, lower |-> UsizeMin1(r.value), upper |-> r.value] :
        r \in UsizeSub(Len(it.input), it.start)}

SplitWithSizeHint(it) ==
    {[panic |-> r.panic, lower |-> UsizeMin1(r.value), upper |-> r.value] :
        r \in UsizeSub(Len(it.input), it.start)}

\* the outcomes size_hint() can have on the iterator it
SizeHint(it) ==
    CASE it.kind = "Bytes" -> BytesSizeHint(it)
      [] it.kind = "Lines" -> LinesSizeHint(it)
      [] it.kind = "Split" -> SplitSizeHint(it)
      [] it.kind = "SplitWith" -> SplitWithSizeHint(it)

\* next() on the iterator it
StrNext(it) ==
    CASE it.kind = "Bytes" -> BytesNext(it)
      [] it.kind = "Lines" -> LinesNext(it)
      [] it.kind = "Split" -> SplitNext(it)
      [] it.kind = "SplitWith" -> SplitWithNext(it)

----------------------------------------------------------------------------
(* The string iterators as a state machine *)

BytesNew(input) ==
    [kind |-> "Bytes", input |-> input, pattern |-> <<>>,
     predicate |-> NoPredicate, index |-> 0, start |-> 0]

LinesNew(input) ==
    [kind |-> "Lines", input |-> input, pattern |-> <<>>,
     predicate |-> NoPredicate, index |-> 0, start |-> 0]

SplitNew(input, pattern) ==
    [kind |-> "Split", input |-> input, pattern |-> pattern,
     predicate |-> NoPredicate, index |-> 0, start |-> 0]

SplitWithNew(input, predicate) ==
    [kind |-> "SplitWith", input |-> input, pattern |-> <<>>,
     predicate |-> predicate, index |-> 0, start |-> 0]

\* the inputs each kind of iterator is run on
BytesInputs == StringsUpTo({CharA, CharEAcute, CharLF}, MaxChars)
\* "a\r\nb\n\nc" and "a,,b"
LinesExample == <<"a", "CR", "LF", "b", "LF", "LF", "c">>
SplitExample == <<"a", ",", ",", "b">>
LinesInputs == StringsUpTo({CharA, CharCR, CharLF}, MaxChars) \cup {LinesExample}
SplitInputs == StringsUpTo({CharA, CharComma}, MaxChars) \cup {SplitExample}
SplitPatterns == StringsUpTo({CharA, CharComma}, MaxPatternChars)
SplitWithInputs == StringsUpTo({CharA, CharComma, CharEAcute}, MaxChars)
SplitWithGraphemes == {CharA, CharComma, CharEAcute}
SplitWithPredicates == [SplitWithGraphemes -> PredicateResults]

StrIterators ==
    {BytesNew(i) : i \in BytesInputs}
    \cup {LinesNew(i) : i \in LinesInputs}
    \cup {SplitNew(i, p) : i \in SplitInputs, p \in SplitPatterns}
    \cup {SplitWithNew(i, f) : i \in SplitWithInputs, f \in SplitWithPredicates}

\* make_copy has not been called on the iterator it: made is whether a copy
\* exists, from the iterator as it was when the copy was made, at the number
\* of outputs it had returned by then, iter the copy, output what the copy's
\* last next() call returned, yielded every Some(..) output of the copy
NoCopy(it) ==
    [made |-> FALSE, from |-> it, at |-> 0, iter |-> it,
     output |-> NotCalled, yielded |-> <<>>]

\* no string iterator is in use
StrIdle ==
    /\ str_iter = BytesNew(<<>>)
    /\ str_output = NotCalled
    /\ str_calls = <<>>
    /\ str_yielded = <<>>
    /\ str_copy = NoCopy(BytesNew(<<>>))

StrInit ==
    /\ str_iter \in StrIterators
    /\ str_output = NotCalled
    /\ str_calls = <<>>
    /\ str_yielded = <<>>
    /\ str_copy = NoCopy(str_iter)

\* the effect of a next() call that returned r
StrReturn(r) ==
    /\ r.output # None => Len(str_yielded) < MaxYielded
    /\ str_iter' = r.iter
    /\ str_output' = r.output
    /\ str_calls' = r.calls
    /\ str_yielded' = IF r.output = None THEN str_yielded
                      ELSE Append(str_yielded, r.output)
    /\ UNCHANGED str_copy
    /\ UNCHANGED <<lib_vars, map_vars, obj_vars, nxt_vars, poetry_vars>>

BytesNextCall ==
    /\ str_iter.kind = "Bytes"
    /\ StrReturn(BytesNext(str_iter))

LinesNextCall ==
    /\ str_iter.kind = "Lines"
    /\ StrReturn(LinesNext(str_iter))

SplitNextCall ==
    /\ str_iter.kind = "Split"
    /\ StrReturn(SplitNext(str_iter))

SplitWithNextCall ==
    /\ str_iter.kind = "SplitWith"
    /\ StrReturn(SplitWithNext(str_iter))

\* Bytes, Lines and Split derive Clone: the copy has the fields of the original
BytesMakeCopy(it) == it
LinesMakeCopy(it) == it
SplitMakeCopy(it) == it

\* SplitWith::make_copy that starts the copy at the beginning of the input
SplitWithMakeCopy_Restart(it) ==
    [kind |-> "SplitWith", input |-> it.input, pattern |-> <<>>,
     predicate |-> it.predicate, index |-> 0, start |-> 0]

\* SplitWith::make_copy: the same input and predicate, a shared VM, the same start
SplitWithMakeCopy(it) ==
    [kind |-> "SplitWith", input |-> it.input, pattern |-> <<>>,
     predicate |-> it.predicate, index |-> 0, start |-> it.start]

\* make_copy() on the iterator it
MakeCopy(it) ==
    CASE it.kind = "Bytes" -> BytesMakeCopy(it)
      [] it.kind = "Lines" -> LinesMakeCopy(it)
      [] it.kind = "Split" -> SplitMakeCopy(it)
      [] it.kind = "SplitWith" -> SplitWithMakeCopy(it)

\* make_copy() is called on the iterator, once
MakeCopyCall ==
    /\ ~str_copy.made
    /\ str_copy' = [made |-> TRUE, from |-> str_iter, at |-> Len(str_yielded),
                    iter |-> MakeCopy(str_iter), output |-> NotCalled,
                    yielded |-> <<>>]
    /\ UNCHANGED <<str_iter, str_output, str_calls, str_yielded>>
    /\ UNCHANGED <<lib_vars, map_vars, obj_vars, nxt_vars, poetry_vars>>

\* next() is called on the copy
CopyNextCall ==
    /\ str_copy.made
    /\ LET r == StrNext(str_copy.iter)
       IN  /\ r.output # None => Len(str_copy.yielded) < MaxYielded
           /\ str_copy' = [str_copy EXCEPT
                              !.iter = r.iter,
                              !.output = r.output,
                              !.yielded = IF r.output = None THEN @
                                          ELSE Append(@, r.output)]
    /\ UNCHANGED <<str_iter, str_output, str_calls, str_yielded>>
    /\ UNCHANGED <<lib_vars, map_vars, obj_vars, nxt_vars, poetry_vars>>

StrStep ==
    \/ BytesNextCall
    \/ LinesNextCall
    \/ SplitNextCall
    \/ SplitWithNextCall

----------------------------------------------------------------------------
(* Values, results and the execution engine's entry points *)

Null == [t |-> "Null"]
Bool(b) == [t |-> "Bool", b |-> b]
\* an integer Number
Number(n) == [t |-> "Number", n |-> n, float |-> FALSE]
\* a float Number
Float(n) == [t |-> "Number", n |-> n, float |-> TRUE]
Tuple(items) == [t |-> "Tuple", items |-> items]
Str(bytes) == [t |-> "Str", bytes |-> bytes]

IsNumber(v) == v.t = "Number"

\* Result<KValue>
Ok(v) == [ok |-> TRUE, value |-> v]
Err(e) == [ok |-> FALSE, error |-> e]

ValuePair(a, b) == [type |-> "ValuePair", first |-> a, second |-> b]

\* CallArgs: the arguments a callable is run with
Single(v) == <<v>>
AsTuple(a, b) == <<Tuple(<<a, b>>)>>
Separate(a, b) == <<a, b>>

\* type_error(expected, unexpected)
TypeError(expected, unexpected) == Err(<<"type_error", expected, unexpected.t>>)

\* type_error_with_slice(expected, unexpected)
TypeErrorWithSlice(expected, unexpected) ==
    Err(<<"type_error", expected>> \o [i \in 1..Len(unexpected) |-> unexpected[i].t])

\* are all items of a tuple Numbers
IsNumberTuple(v) ==
    v.t = "Tuple" /\ \A i \in 1..Len(v.items) : IsNumber(v.items[i])

\* element-wise strict order of two tuples of Numbers
TupleLess(a, b) ==
    \/ \E i \in 1..Len(a) :
          /\ i <= Len(b)
          /\ a[i].n < b[i].n
          /\ \A j \in 1..(i - 1) : a[j].n = b[j].n
    \/ /\ Len(a) < Len(b)
       /\ \A j \in 1..Len(a) : a[j].n = b[j].n

\* vm.run_binary_op(BinaryOp::Less, a, b)
Less(a, b) ==
    IF IsNumber(a) /\ IsNumber(b) THEN Ok(Bool(a.n < b.n))
    ELSE IF IsNumberTuple(a) /\ IsNumberTuple(b) THEN Ok(Bool(TupleLess(a.items, b.items)))
    ELSE Err(<<"binary_op", "Less", a.t, b.t>>)

\* vm.run_binary_op(BinaryOp::Add, a, b)
Add(a, b) ==
    IF IsNumber(a) /\ IsNumber(b)
    THEN Ok([t |-> "Number", n |-> a.n + b.n, float |-> a.float \/ b.float])
    ELSE Err(<<"binary_op", "Add", a.t, b.t>>)

\* vm.run_binary_op(BinaryOp::Multiply, a, b)
Multiply(a, b) ==
    IF IsNumber(a) /\ IsNumber(b)
    THEN Ok([t |-> "Number", n |-> a.n * b.n, float |-> a.float \/ b.float])
    ELSE Err(<<"binary_op", "Multiply", a.t, b.t>>)

RunBinaryOp(op, a, b) ==
    CASE op = "Less" -> Less(a, b)
      [] op = "Add" -> Add(a, b)
      [] op = "Multiply" -> Multiply(a, b)

\* The script functions passed to the library (the last three are passed to
\* map.sort only):
\*   always_true   |x| true
\*   always_false  |x| false
\*   equals_2      |x| x == 2
\*   not_2         |x| x != 2
\*   number_on_2   |x| if x == 2 then 0 else true
\*   throws_on_2   |x| if x == 2 then throw "boom" else false
\*   number_on_2_true_on_1  |x| if x == 2 then 0 else x == 1
\*   identity      |x| x
\*   constant      |x| 0
\*   parity        |x| x % 2
\*   pair          |acc, x| (acc, x)
\*   pair_throws_on_2  |acc, x| if x == 2 then throw "boom" else (acc, x)
\*   second        |key, value| value
\*   second_throws_on_2  |key, value| if value == 2 then throw key else value
\*   throws_first  |key, value| throw key
Callables ==
    {"always_true", "always_false", "equals_2", "not_2", "number_on_2",
     "throws_on_2", "number_on_2_true_on_1", "identity", "constant", "parity",
     "pair", "pair_throws_on_2"}

\* the script functions passed to map.sort as key functions
SortKeyFunctions == {"pair", "second", "second_throws_on_2", "throws_first"}

IsTwo(x) == IsNumber(x) /\ x.n = 2

\* the error a script raises with `throw x`
Thrown(x) ==
    <<"thrown", IF IsNumber(x) /\ x.n \in 0..9
                THEN <<"0", "1", "2", "3", "4", "5", "6", "7", "8", "9">>[x.n + 1]
                ELSE x.t>>

\* vm.run_function(f, args) for the script functions above
RunFunction(f, args) ==
    IF f \in {"pair", "pair_throws_on_2"}
    THEN IF Len(args) # 2 THEN Err(<<"arity", f>>)
         ELSE IF f = "pair_throws_on_2" /\ IsTwo(args[2]) THEN Err(<<"boom">>)
         ELSE Ok(Tuple(<<args[1], args[2]>>))
    ELSE IF f \in {"second", "second_throws_on_2", "throws_first"}
    THEN IF Len(args) # 2 THEN Err(<<"arity", f>>)
         ELSE IF f = "throws_first" THEN Err(Thrown(args[1]))
         ELSE IF f = "second_throws_on_2" /\ IsTwo(args[2]) THEN Err(Thrown(args[1]))
         ELSE Ok(args[2])
    ELSE IF Len(args) # 1 THEN Err(<<"arity", f>>)
    ELSE LET x == args[1]
         IN  CASE f = "always_true" -> Ok(Bool(TRUE))
               [] f = "always_false" -> Ok(Bool(FALSE))
               [] f = "equals_2" -> Ok(Bool(IsTwo(x)))
               [] f = "not_2" -> Ok(Bool(~IsTwo(x)))
               [] f = "number_on_2" -> IF IsTwo(x) THEN Ok(Number(0)) ELSE Ok(Bool(TRUE))
               [] f = "throws_on_2" -> IF IsTwo(x) THEN Err(<<"boom">>) ELSE Ok(Bool(FALSE))
               [] f = "number_on_2_true_on_1" ->
                      IF IsTwo(x) THEN Ok(Number(0)) ELSE Ok(Bool(IsNumber(x) /\ x.n = 1))
               [] f = "identity" -> Ok(x)
               [] f = "constant" -> Ok(Number(0))
               [] f = "parity" -> IF IsNumber(x) THEN Ok(Number(x.n % 2))
                                  ELSE Err(<<"binary_op", "Remainder", x.t, "Number">>)

\* a call of a script function or of a binary operator, as recorded in the
\* call log
Call(f, args) == [f |-> f, args |-> args]

----------------------------------------------------------------------------
(* Iterator handles *)

\* a handle over a producer that yields the outputs of src in order and then
\* None; pulls counts the next() calls made on the handle
SourceIter(src) == [kind |-> "source", src |-> src, pos |-> 0, pulls |-> 0]

SourceNext(h) ==
    IF h.pos < Len(h.src)
    THEN [iter |-> [h EXCEPT !.pos = h.pos + 1, !.pulls = h.pulls + 1],
          output |-> h.src[h.pos + 1], calls |-> <<>>]
    ELSE [iter |-> [h EXCEPT !.pulls = h.pulls + 1], output |-> None, calls |-> <<>>]

\* TestIterator::make_object(x)
TestIteratorNew(x) == [x |-> x]

\* TestIterator::iterator_next: self.x += 1, then Some(self.x)
TestIteratorNext(it) ==
    [iter |-> [x |-> it.x + 1], output |-> Value(Number(it.x + 1))]

\* TestIterator::iterator_next_back: self.x -= 1, then Some(self.x)
TestIteratorNextBack(it) ==
    [iter |-> [x |-> it.x - 1], output |-> Value(Number(it.x - 1))]

\* a handle on a TestIterator made for make_object(start): KIterator::with_object
ObjectIter(start) == [kind |-> "object", start |-> start, x |-> start]

ObjectNext(h) ==
    LET r == TestIteratorNext(TestIteratorNew(h.x))
    IN  [iter |-> [h EXCEPT !.x = r.iter.x], output |-> r.output, calls |-> <<>>]

ObjectNextBack(h) ==
    LET r == TestIteratorNextBack(TestIteratorNew(h.x))
    IN  [iter |-> [h EXCEPT !.x = r.iter.x], output |-> r.output, calls |-> <<>>]

\* KIterator::is_bidirectional: the handle of an object that reports
\* IsIterable::BidirectionalIterator is; a scripted producer is not
IsBidirectional(h) == h.kind = "object"

\* KIterator::next_back
IterNextBack(h) ==
    IF h.kind = "object" THEN ObjectNextBack(h)
    ELSE [iter |-> h, output |-> None, calls |-> <<>>]

\* adaptors::Chain::new, Take::new
ChainIter(iter_a, iter_b) ==
    [kind |-> "chain", a |-> iter_a, b |-> iter_b, a_done |-> FALSE]
TakeIter(inner, n) == [kind |-> "take", inner |-> inner, remaining |-> n]

\* adaptors::Step::new, Chunks::new, Windows::new: a size below 1 is an error
StepNew(inner, n) ==
    IF n < 1 THEN Err(<<"step size must be at least 1">>)
    ELSE Ok([kind |-> "step", inner |-> inner, step |-> n])
ChunksNew(inner, n) ==
    IF n < 1 THEN Err(<<"chunk size must be at least 1">>)
    ELSE Ok([kind |-> "chunks", inner |-> inner, size |-> n])
WindowsNew(inner, n) ==
    IF n < 1 THEN Err(<<"window size must be at least 1">>)
    ELSE Ok([kind |-> "windows", inner |-> inner, size |-> n, cache |-> <<>>])

\* adaptors::Reversed::new: the iterator must be bidirectional
ReversedNew(inner) ==
    IF ~IsBidirectional(inner) THEN Err(<<"the provided iterator is not bidirectional">>)
    ELSE Ok([kind |-> "reversed", inner |-> inner])

\* adaptors::Keep::new, Each::new, TakeWhile::new
KeepIter(inner, predicate) ==
    [kind |-> "keep", f |-> predicate, inner |-> inner, finished |-> FALSE]
EachIter(inner, f) ==
    [kind |-> "each", f |-> f, inner |-> inner, finished |-> FALSE]
TakeWhileIter(inner, predicate) ==
    [kind |-> "take_while", f |-> predicate, inner |-> inner, finished |-> FALSE]

\* the arguments a one-argument callable gets for an output
ArgsOf(output) ==
    IF output.type = "ValuePair" THEN AsTuple(output.first, output.second)
    ELSE Single(output.value)

\* collect_pair that hands every output on as it is
collect_pair_Identity(output) == output

\* collect_pair: a pair becomes the value that is the tuple of its two parts
collect_pair(output) ==
    IF output.type = "ValuePair"
    THEN Value(Tuple(<<output.first, output.second>>))
    ELSE output

RECURSIVE IterNext(_)
RECURSIVE KeepNext(_, _)

\* Keep::next: pulls until the predicate accepts an output; calls are the
\* predicate calls made so far in this next()
KeepNext(h, calls) ==
    LET n == IterNext(h.inner)
        pulled == [h EXCEPT !.inner = n.iter]
    IN  IF n.output.type \in {"None", "Error"}
        THEN [iter |-> pulled, output |-> n.output, calls |-> calls]
        ELSE LET r == RunFunction(h.f, ArgsOf(n.output))
                 called == Append(calls, Call(h.f, ArgsOf(n.output)))
             IN  IF ~r.ok
                 THEN [iter |-> pulled, output |-> Error(r.error), calls |-> called]
                 ELSE IF r.value.t # "Bool"
                 THEN [iter |-> pulled,
                       output |-> Error(<<"type_error", "a Bool", r.value.t>>),
                       calls |-> called]
                 ELSE IF r.value.b
                 THEN [iter |-> pulled, output |-> n.output, calls |-> called]
                 ELSE KeepNext(pulled, called)

\* Each::next
EachNext(h) ==
    LET n == IterNext(h.inner)
        pulled == [h EXCEPT !.inner = n.iter]
    IN  IF n.output.type \in {"None", "Error"}
        THEN [iter |-> pulled, output |-> n.output, calls |-> <<>>]
        ELSE LET r == RunFunction(h.f, ArgsOf(n.output))
                 called == <<Call(h.f, ArgsOf(n.output))>>
             IN  IF r.ok
                 THEN [iter |-> pulled, output |-> Value(r.value), calls |-> called]
                 ELSE [iter |-> pulled, output |-> Error(r.error), calls |-> called]

\* TakeWhile::next
TakeWhileNext(h) ==
    IF h.finished THEN [iter |-> h, output |-> None, calls |-> <<>>]
    ELSE
    LET n == IterNext(h.inner)
        pulled == [h EXCEPT !.inner = n.iter]
    IN  IF n.output.type \in {"None", "Error"}
        THEN [iter |-> pulled, output |-> n.output, calls |-> <<>>]
        ELSE LET r == RunFunction(h.f, ArgsOf(n.output))
                 called == <<Call(h.f, ArgsOf(n.output))>>
             IN  IF ~r.ok
                 THEN [iter |-> pulled, output |-> Error(r.error), calls |-> called]
                 ELSE IF r.value.t # "Bool"
                 THEN [iter |-> pulled,
                       output |-> Error(<<"type_error", "a Bool", r.value.t>>),
                       calls |-> called]
                 ELSE IF r.value.b
                 THEN [iter |-> pulled, output |-> n.output, calls |-> called]
                 ELSE [iter |-> [pulled EXCEPT !.finished = TRUE],
                       output |-> None, calls |-> called]

\* Chain::next that ends when the first handle does
ChainNext_FirstOnly(h) ==
    LET n == IterNext(h.a)
    IN  [iter |-> [h EXCEPT !.a = n.iter], output |-> n.output, calls |-> n.calls]

\* Chain::next: the first handle until it returns None, then the second
ChainNext(h) ==
    IF h.a_done
    THEN LET n == IterNext(h.b)
         IN  [iter |-> [h EXCEPT !.b = n.iter], output |-> n.output, calls |-> n.calls]
    ELSE LET n == IterNext(h.a)
         IN  IF n.output # None
             THEN [iter |-> [h EXCEPT !.a = n.iter], output |-> n.output, calls |-> n.calls]
             ELSE LET m == IterNext(h.b)
                  IN  [iter |-> [h EXCEPT !.a = n.iter, !.a_done = TRUE, !.b = m.iter],
                       output |-> m.output, calls |-> n.calls \o m.calls]

\* Take::next: the next output while the count lasts
TakeNext(h) ==
    IF h.remaining = 0 THEN [iter |-> h, output |-> None, calls |-> <<>>]
    ELSE LET n == IterNext(h.inner)
         IN  [iter |-> [h EXCEPT !.inner = n.iter, !.remaining = h.remaining - 1],
              output |-> n.output, calls |-> n.calls]

\* Reversed::next that pulls from the front
ReversedNext_Forward(h) ==
    LET n == IterNext(h.inner)
    IN  [iter |-> [h EXCEPT !.inner = n.iter], output |-> n.output, calls |-> n.calls]

\* Reversed::next: the next output from the back
ReversedNext(h) ==
    LET n == IterNextBack(h.inner)
    IN  [iter |-> [h EXCEPT !.inner = n.iter], output |-> n.output, calls |-> n.calls]

RECURSIVE Fill(_, _, _, _)
\* pulls from inner until the group holds size values, the producer ends or
\* an Error comes
Fill(inner, size, group, calls) ==
    IF Len(group) >= size
    THEN [iter |-> inner, group |-> group, ended |-> FALSE, error |-> <<>>, calls |-> calls]
    ELSE LET n == IterNext(inner)
         IN  IF n.output = None
             THEN [iter |-> n.iter, group |-> group, ended |-> TRUE, error |-> <<>>,
                   calls |-> calls \o n.calls]
             ELSE IF n.output.type = "Error"
             THEN [iter |-> n.iter, group |-> group, ended |-> FALSE,
                   error |-> <<n.output>>, calls |-> calls \o n.calls]
             ELSE Fill(n.iter, size, Append(group, collect_pair(n.output).value),
                       calls \o n.calls)

\* Chunks::next: the next group of up to size values, None when there is none
ChunksNext(h) ==
    LET f == Fill(h.inner, h.size, <<>>, <<>>)
        pulled == [h EXCEPT !.inner = f.iter]
    IN  IF Len(f.error) > 0 THEN [iter |-> pulled, output |-> f.error[1], calls |-> f.calls]
        ELSE IF Len(f.group) = 0 THEN [iter |-> pulled, output |-> None, calls |-> f.calls]
        ELSE [iter |-> pulled, output |-> Value(Tuple(f.group)), calls |-> f.calls]

\* Windows::next that yields the values left over as short windows
WindowsNext_ShortFinal(h) ==
    LET f == Fill(h.inner, h.size, h.cache, <<>>)
        pulled == [h EXCEPT !.inner = f.iter]
    IN  IF Len(f.error) > 0 THEN [iter |-> pulled, output |-> f.error[1], calls |-> f.calls]
        ELSE IF Len(f.group) = 0 THEN [iter |-> pulled, output |-> None, calls |-> f.calls]
        ELSE [iter |-> [pulled EXCEPT !.cache = Tail(f.group)],
              output |-> Value(Tuple(f.group)), calls |-> f.calls]

\* Windows::next: the last size values pulled, None when the producer ends
\* before the window is full
WindowsNext(h) ==
    LET f == Fill(h.inner, h.size, h.cache, <<>>)
        pulled == [h EXCEPT !.inner = f.iter]
    IN  IF Len(f.error) > 0 THEN [iter |-> pulled, output |-> f.error[1], calls |-> f.calls]
        ELSE IF f.ended THEN [iter |-> pulled, output |-> None, calls |-> f.calls]
        ELSE [iter |-> [pulled EXCEPT !.cache = Tail(f.group)],
              output |-> Value(Tuple(f.group)), calls |-> f.calls]

\* KIterator::next on any handle
IterNext(h) ==
    CASE h.kind = "source" -> SourceNext(h)
      [] h.kind = "object" -> ObjectNext(h)
      [] h.kind = "chain" -> ChainNext(h)
      [] h.kind = "take" -> TakeNext(h)
      [] h.kind = "reversed" -> ReversedNext(h)
      [] h.kind = "chunks" -> ChunksNext(h)
      [] h.kind = "windows" -> WindowsNext(h)
      [] h.kind = "keep" -> KeepNext(h, <<>>)
      [] h.kind = "each" -> EachNext(h)
      [] h.kind = "take_while" -> TakeWhileNext(h)

RECURSIVE Upstream(_)
\* the source handle at the bottom of a chain of adaptors
Upstream(h) == IF h.kind = "source" THEN h ELSE Upstream(h.inner)

----------------------------------------------------------------------------
(* core.iterator: the loop bodies of the draining functions *)

\* What one pass through the body of a `for output in iterator` loop does:
\* go on with the loop's variables set to acc, or return result from the
\* function.  calls are the script-function calls the pass made.
Continue(acc, calls) == [ctl |-> "continue", acc |-> acc, result |-> Ok(Null), calls |-> calls]
Return(result, acc, calls) == [ctl |-> "return", acc |-> acc, result |-> result, calls |-> calls]
\* unreachable!(): the call ends in a panic
Panic == Err(<<"panic", "internal error: entered unreachable code">>)
Unreachable(acc) == Return(Panic, acc, <<>>)

\* the match on a predicate's result in all, any, find and position
AllBody(predicate, acc, output) ==
    IF output.type = "Error" THEN Return(Err(output.error), acc, <<>>)
    ELSE LET r == RunFunction(predicate, ArgsOf(output))
             called == <<Call(predicate, ArgsOf(output))>>
         IN  IF ~r.ok THEN Return(r, acc, called)
             ELSE IF r.value.t # "Bool"
             THEN Return(TypeError("a Bool to be returned from the predicate", r.value), acc, called)
             ELSE IF ~r.value.b THEN Return(Ok(Bool(FALSE)), acc, called)
             ELSE Continue(acc, called)

\* AnyBody that takes a result that is not a Bool for false
AnyBody_NonBoolIsFalse(predicate, acc, output) ==
    IF output.type = "Error" THEN Return(Err(output.error), acc, <<>>)
    ELSE LET r == RunFunction(predicate, ArgsOf(output))
             called == <<Call(predicate, ArgsOf(output))>>
         IN  IF ~r.ok THEN Return(r, acc, called)
             ELSE IF r.value.t = "Bool" /\ r.value.b THEN Return(Ok(Bool(TRUE)), acc, called)
             ELSE Continue(acc, called)

\* AnyBody that stops at the first false instead of the first true
AnyBody_StopsAtFalse(predicate, acc, output) ==
    IF output.type = "Error" THEN Return(Err(output.error), acc, <<>>)
    ELSE LET r == RunFunction(predicate, ArgsOf(output))
             called == <<Call(predicate, ArgsOf(output))>>
         IN  IF ~r.ok THEN Return(r, acc, called)
             ELSE IF r.value.t # "Bool"
             THEN Return(TypeError("a Bool to be returned from the predicate", r.value), acc, called)
             ELSE IF ~r.value.b THEN Return(Ok(Bool(FALSE)), acc, called)
             ELSE Continue(acc, called)

AnyBody(predicate, acc, output) ==
    IF output.type = "Error" THEN Return(Err(output.error), acc, <<>>)
    ELSE LET r == RunFunction(predicate, ArgsOf(output))
             called == <<Call(predicate, ArgsOf(output))>>
         IN  IF ~r.ok THEN Return(r, acc, called)
             ELSE IF r.value.t # "Bool"
             THEN Return(TypeError("a Bool to be returned from the predicate", r.value), acc, called)
             ELSE IF r.value.b THEN Return(Ok(Bool(TRUE)), acc, called)
             ELSE Continue(acc, called)

\* consume without a function
ConsumeBody(acc, output) ==
    IF output.type = "Error" THEN Return(Err(output.error), acc, <<>>)
    ELSE Continue(acc, <<>>)

\* consume with a function
ConsumeWithBody(f, acc, output) ==
    IF output.type = "Error" THEN Return(Err(output.error), acc, <<>>)
    ELSE LET r == RunFunction(f, ArgsOf(output))
             called == <<Call(f, ArgsOf(output))>>
         IN  IF ~r.ok THEN Return(r, acc, called) ELSE Continue(acc, called)

\* CountBody that counts an Error output like any other
CountBody_CountErrors(result, output) ==
    Continue(result + 1, <<>>)

CountBody(result, output) ==
    IF output.type = "Error" THEN Return(Err(output.error), result, <<>>)
    ELSE Continue(result + 1, <<>>)

FindBody(predicate, acc, pulled) ==
    LET output == collect_pair(pulled)
    IN  IF output.type = "Error" THEN Return(Err(output.error), acc, <<>>)
        ELSE IF output.type # "Value" THEN Unreachable(acc)
        ELSE LET value == output.value
                 r == RunFunction(predicate, Single(value))
                 called == <<Call(predicate, Single(value))>>
             IN  IF ~r.ok THEN Return(r, acc, called)
                 ELSE IF r.value.t # "Bool"
                 THEN Return(TypeError("a Bool to be returned from the predicate", r.value), acc, called)
                 ELSE IF r.value.b THEN Return(Ok(value), acc, called)
                 ELSE Continue(acc, called)

\* FoldBody that skips an element f fails on
FoldBody_SkipFailure(f, fold_result, pulled) ==
    LET output == collect_pair(pulled)
    IN  IF output.type = "Error" THEN Return(Err(output.error), fold_result, <<>>)
        ELSE IF output.type # "Value" THEN Unreachable(fold_result)
        ELSE LET r == RunFunction(f, Separate(fold_result, output.value))
                 called == <<Call(f, Separate(fold_result, output.value))>>
             IN  IF r.ok THEN Continue(r.value, called)
                 ELSE Continue(fold_result, called)

FoldBody(f, fold_result, pulled) ==
    LET output == collect_pair(pulled)
    IN  IF output.type = "Error" THEN Return(Err(output.error), fold_result, <<>>)
        ELSE IF output.type # "Value" THEN Unreachable(fold_result)
        ELSE LET r == RunFunction(f, Separate(fold_result, output.value))
                 called == <<Call(f, Separate(fold_result, output.value))>>
             IN  IF r.ok THEN Continue(r.value, called)
                 ELSE Return(Err(r.error), fold_result, called)

LastBody(result, pulled) ==
    LET output == collect_pair(pulled)
    IN  IF output.type = "Error" THEN Return(Err(output.error), result, <<>>)
        ELSE IF output.type # "Value" THEN Unreachable(result)
        ELSE Continue(output.value, <<>>)

\* compare_values: the lesser of a and b under '<', the other one when
\* invert_result is set
compare_values(a, b, invert_result) ==
    LET comparison_result == RunBinaryOp("Less", a, b)
    IN  IF ~comparison_result.ok THEN comparison_result
        ELSE IF comparison_result.value.t # "Bool"
        THEN Err(<<"Expected Bool from '<' comparison", comparison_result.value.t>>)
        ELSE CASE comparison_result.value.b /\ ~invert_result -> Ok(a)
               [] ~comparison_result.value.b /\ ~invert_result -> Ok(b)
               [] comparison_result.value.b /\ invert_result -> Ok(b)
               [] ~comparison_result.value.b /\ invert_result -> Ok(a)

\* a value with its key
ValueAndKey(value, key) == [value |-> value, key |-> key]

\* Result<(KValue, KValue)>
OkPair(value_and_key) == [ok |-> TRUE, pair |-> value_and_key]

compare_values_with_key(a_and_key, b_and_key, invert_result) ==
    LET comparison_result == RunBinaryOp("Less", a_and_key.key, b_and_key.key)
    IN  IF ~comparison_result.ok THEN comparison_result
        ELSE IF comparison_result.value.t # "Bool"
        THEN Err(<<"Expected Bool from '<' comparison", comparison_result.value.t>>)
        ELSE CASE comparison_result.value.b /\ ~invert_result -> OkPair(a_and_key)
               [] ~comparison_result.value.b /\ ~invert_result -> OkPair(b_and_key)
               [] comparison_result.value.b /\ invert_result -> OkPair(b_and_key)
               [] ~comparison_result.value.b /\ invert_result -> OkPair(a_and_key)

\* An Option is the empty sequence for None and <<x>> for Some(x).

\* ComparisonBody with the sense of invert_result exchanged
ComparisonBody_Inverted(invert_result, result, pulled) ==
    LET output == collect_pair(pulled)
    IN  IF output.type = "Error" THEN Return(Err(output.error), result, <<>>)
        ELSE IF output.type # "Value" THEN Unreachable(result)
        ELSE IF Len(result) = 0 THEN Continue(<<output.value>>, <<>>)
        ELSE LET c == compare_values(result[1], output.value, ~invert_result)
                 compared == <<Call("Less", <<result[1], output.value>>)>>
             IN  IF c.ok THEN Continue(<<c.value>>, compared)
                 ELSE Return(c, result, compared)

\* the loop body of run_iterator_comparison
ComparisonBody(invert_result, result, pulled) ==
    LET output == collect_pair(pulled)
    IN  IF output.type = "Error" THEN Return(Err(output.error), result, <<>>)
        ELSE IF output.type # "Value" THEN Unreachable(result)
        ELSE IF Len(result) = 0 THEN Continue(<<output.value>>, <<>>)
        ELSE LET c == compare_values(result[1], output.value, invert_result)
                 compared == <<Call("Less", <<result[1], output.value>>)>>
             IN  IF c.ok THEN Continue(<<c.value>>, compared)
                 ELSE Return(c, result, compared)

\* the loop body of run_iterator_comparison_by_key
ComparisonByKeyBody(key_fn, invert_result, result_and_key, pulled) ==
    LET output == collect_pair(pulled)
    IN  IF output.type = "Error" THEN Return(Err(output.error), result_and_key, <<>>)
        ELSE IF output.type # "Value" THEN Unreachable(result_and_key)
        ELSE LET value == output.value
                 key == RunFunction(key_fn, Single(value))
                 called == <<Call(key_fn, Single(value))>>
             IN  IF ~key.ok THEN Return(key, result_and_key, called)
                 ELSE IF Len(result_and_key) = 0
                 THEN Continue(<<ValueAndKey(value, key.value)>>, called)
                 ELSE LET c == compare_values_with_key(
                                   result_and_key[1], ValueAndKey(value, key.value),
                                   invert_result)
                          compared == <<Call("Less", <<result_and_key[1].key, key.value>>)>>
                      IN  IF c.ok THEN Continue(<<c.pair>>, called \o compared)
                          ELSE Return(c, result_and_key, called \o compared)

\* the loop body of min_max without a key function
MinMaxBody(result, pulled) ==
    LET output == collect_pair(pulled)
    IN  IF output.type = "Error" THEN Return(Err(output.error), result, <<>>)
        ELSE IF output.type # "Value" THEN Unreachable(result)
        ELSE LET value == output.value
             IN  IF Len(result) = 0 THEN Continue(<<[min |-> value, max |-> value]>>, <<>>)
                 ELSE LET min == compare_values(result[1].min, value, FALSE)
                          max == compare_values(result[1].max, value, TRUE)
                          min_compared == <<Call("Less", <<result[1].min, value>>)>>
                          max_compared == <<Call("Less", <<result[1].max, value>>)>>
                      IN  IF ~min.ok THEN Return(min, result, min_compared)
                          ELSE IF ~max.ok
                          THEN Return(max, result, min_compared \o max_compared)
                          ELSE Continue(<<[min |-> min.value, max |-> max.value]>>,
                                        min_compared \o max_compared)

\* the loop body of min_max with a key function
MinMaxByKeyBody(key_fn, result, pulled) ==
    LET output == collect_pair(pulled)
    IN  IF output.type = "Error" THEN Return(Err(output.error), result, <<>>)
        ELSE IF output.type # "Value" THEN Unreachable(result)
        ELSE LET value == output.value
                 key == RunFunction(key_fn, Single(value))
                 called == <<Call(key_fn, Single(value))>>
             IN  IF ~key.ok THEN Return(key, result, called)
                 ELSE LET value_and_key == ValueAndKey(value, key.value)
                      IN  IF Len(result) = 0
                          THEN Continue(<<[min |-> value_and_key, max |-> value_and_key]>>, called)
                          ELSE LET min == compare_values_with_key(result[1].min, value_and_key, FALSE)
                                   max == compare_values_with_key(result[1].max, value_and_key, TRUE)
                                   min_compared ==
                                       <<Call("Less", <<result[1].min.key, key.value>>)>>
                                   max_compared ==
                                       <<Call("Less", <<result[1].max.key, key.value>>)>>
                               IN  IF ~min.ok THEN Return(min, result, called \o min_compared)
                                   ELSE IF ~max.ok
                                   THEN Return(max, result,
                                               called \o min_compared \o max_compared)
                                   ELSE Continue(<<[min |-> min.pair, max |-> max.pair]>>,
                                                 called \o min_compared \o max_compared)

\* position: i is the index enumerate() gives the output
PositionBody(predicate, i, output) ==
    IF output.type = "Error" THEN Return(Err(output.error), i, <<>>)
    ELSE LET r == RunFunction(predicate, ArgsOf(output))
             called == <<Call(predicate, ArgsOf(output))>>
         IN  IF ~r.ok THEN Return(r, i, called)
             ELSE IF r.value.t # "Bool"
             THEN Return(TypeErrorWithSlice("a Bool to be returned from the predicate",
                                            <<r.value>>), i, called)
             ELSE IF r.value.b THEN Return(Ok(Number(i)), i, called)
             ELSE Continue(i + 1, called)

\* FoldWithOperatorBody that goes on with the old result when the operator fails
FoldWithOperatorBody_SkipFailure(operator, result, pulled) ==
    LET output == collect_pair(pulled)
    IN  IF output.type = "Error" THEN Return(Err(output.error), result, <<>>)
        ELSE IF output.type # "Value" THEN Unreachable(result)
        ELSE LET r == RunBinaryOp(operator, result, output.value)
                 operated == <<Call(operator, <<result, output.value>>)>>
             IN  IF r.ok THEN Continue(r.value, operated) ELSE Continue(result, operated)

\* the loop body of fold_with_operator
FoldWithOperatorBody(operator, result, pulled) ==
    LET output == collect_pair(pulled)
    IN  IF output.type = "Error" THEN Return(Err(output.error), result, <<>>)
        ELSE IF output.type # "Value" THEN Unreachable(result)
        ELSE LET r == RunBinaryOp(operator, result, output.value)
                 operated == <<Call(operator, <<result, output.value>>)>>
             IN  IF r.ok THEN Continue(r.value, operated) ELSE Return(r, result, operated)

\* ToListBody that drops an Error output and goes on
ToListBody_DropErrors(result, pulled) ==
    LET output == collect_pair(pulled)
    IN  IF output.type = "Error" THEN Continue(result, <<>>)
        ELSE IF output.type # "Value" THEN Unreachable(result)
        ELSE Continue(Append(result, output.value), <<>>)

\* ToListBody that puts each value in front of the ones before it
ToListBody_Prepend(result, pulled) ==
    LET output == collect_pair(pulled)
    IN  IF output.type = "Error" THEN Return(Err(output.error), result, <<>>)
        ELSE IF output.type # "Value" THEN Unreachable(result)
        ELSE Continue(<<output.value>> \o result, <<>>)

\* to_list and to_tuple
ToListBody(result, pulled) ==
    LET output == collect_pair(pulled)
    IN  IF output.type = "Error" THEN Return(Err(output.error), result, <<>>)
        ELSE IF output.type # "Value" THEN Unreachable(result)
        ELSE Continue(Append(result, output.value), <<>>)

\* ValueKey::try_from: the hashable kinds of value can be keys
ValueKeyTryFrom(value) ==
    IF value.t \in {"Null", "Bool", "Number", "Str", "Tuple"} THEN Ok(value)
    ELSE Err(<<"Only hashable values can be used as map keys", value.t>>)

\* equality of two keys: Numbers are equal when their values are
KeyEq(a, b) ==
    IF IsNumber(a) /\ IsNumber(b) THEN a.n = b.n ELSE a = b

\* A map's data is the sequence of its entries in insertion order.
Entry(key, value) == [key |-> key, value |-> value]

ContainsKey(data, key) == \E i \in 1..Len(data) : KeyEq(data[i].key, key)

IndexOfKey(data, key) == CHOOSE i \in 1..Len(data) : KeyEq(data[i].key, key)

\* ValueMap::get(key), for a key the map contains
MapGet(data, key) == data[IndexOfKey(data, key)].value

\* ValueMap::insert: a new key is appended, an existing key keeps its place
\* and gets the new value
MapInsert(data, key, value) ==
    IF ContainsKey(data, key)
    THEN [data EXCEPT ![IndexOfKey(data, key)].value = value]
    ELSE Append(data, Entry(key, value))

\* the loop body of to_map taking a tuple of any length of two or more for a pair
ToMapBody_AnyTuple(result, output) ==
    IF output.type = "Error" THEN Return(Err(output.error), result, <<>>)
    ELSE LET key == IF output.type = "ValuePair" THEN output.first
                    ELSE IF output.value.t = "Tuple" /\ Len(output.value.items) >= 2
                    THEN output.value.items[1]
                    ELSE output.value
             value == IF output.type = "ValuePair" THEN output.second
                      ELSE IF output.value.t = "Tuple" /\ Len(output.value.items) >= 2
                      THEN output.value.items[2]
                      ELSE Null
             value_key == ValueKeyTryFrom(key)
         IN  IF ~value_key.ok THEN Return(value_key, result, <<>>)
             ELSE Continue(MapInsert(result, value_key.value, value), <<>>)

\* the loop body of to_map
ToMapBody(result, output) ==
    IF output.type = "Error" THEN Return(Err(output.error), result, <<>>)
    ELSE LET key == IF output.type = "ValuePair" THEN output.first
                    ELSE IF output.value.t = "Tuple" /\ Len(output.value.items) = 2
                    THEN output.value.items[1]
                    ELSE output.value
             value == IF output.type = "ValuePair" THEN output.second
                      ELSE IF output.value.t = "Tuple" /\ Len(output.value.items) = 2
                      THEN output.value.items[2]
                      ELSE Null
             value_key == ValueKeyTryFrom(key)
         IN  IF ~value_key.ok THEN Return(value_key, result, <<>>)
             ELSE Continue(MapInsert(result, value_key.value, value), <<>>)

\* the loop body of map.extend with an iterable
ExtendBody(map_data, output) ==
    IF output.type = "Error" THEN Return(Err(output.error), map_data, <<>>)
    ELSE LET pair == IF output.type = "ValuePair" THEN <<output.first, output.second>>
                     ELSE IF output.value.t = "Tuple" /\ Len(output.value.items) = 2
                     THEN <<output.value.items[1], output.value.items[2]>>
                     ELSE <<output.value, Null>>
             value_key == ValueKeyTryFrom(pair[1])
         IN  IF ~value_key.ok THEN Return(value_key, map_data, <<>>)
             ELSE Continue(MapInsert(map_data, value_key.value, pair[2]), <<>>)

Digits == <<"0", "1", "2", "3", "4", "5", "6", "7", "8", "9">>

RECURSIVE Decimal(_)
\* the decimal digits of a natural number
Decimal(n) ==
    IF n < 10 THEN <<Digits[n + 1]>>
    ELSE Decimal(n \div 10) \o <<Digits[(n % 10) + 1]>>

RECURSIVE Display(_)
RECURSIVE DisplayItems(_)
\* the items of a tuple, separated by ", "
DisplayItems(items) ==
    IF items = <<>> THEN <<>>
    ELSE IF Len(items) = 1 THEN Display(items[1])
    ELSE Display(items[1]) \o <<",", " ">> \o DisplayItems(Tail(items))

\* value.display: the text a value is rendered as
Display(value) ==
    CASE value.t = "Null" -> <<"n", "u", "l", "l">>
      [] value.t = "Bool" -> IF value.b THEN <<"t", "r", "u", "e">>
                             ELSE <<"f", "a", "l", "s", "e">>
      [] value.t = "Number" ->
            (IF value.n < 0 THEN <<"-">> \o Decimal(-value.n) ELSE Decimal(value.n))
            \o (IF value.float THEN <<".", "0">> ELSE <<>>)
      [] value.t = "Str" -> value.bytes
      [] value.t = "Tuple" -> <<"(">> \o DisplayItems(value.items) \o <<")">>

ToStringBody(display_context, pulled) ==
    LET output == collect_pair(pulled)
    IN  IF output.type = "Error" THEN Return(Err(output.error), display_context, <<>>)
        ELSE IF output.type # "Value" THEN Unreachable(display_context)
        ELSE IF output.value.t = "Str"
        THEN Continue(display_context \o output.value.bytes, <<>>)
        ELSE Continue(display_context \o Display(output.value), <<>>)

----------------------------------------------------------------------------
(* core.iterator: the draining functions *)

\* A library call is [fn, fs, args, iter, map]: the function, the callables
\* and the other values among its arguments after the iterable, the handle
\* make_iterator returns for the iterable, and for map.extend the data of the
\* receiving map.
LibCall(fn, fs, args, iter) ==
    [fn |-> fn, fs |-> fs, args |-> args, iter |-> iter, map |-> <<>>]
ExtendCall(map_data, iter) ==
    [fn |-> "extend", fs |-> <<>>, args |-> <<>>, iter |-> iter, map |-> map_data]

\* the loop variables as the loop is entered
Start(call) ==
    CASE call.fn \in {"all", "any", "consume", "find"} -> Null
      [] call.fn \in {"count", "position"} -> 0
      [] call.fn = "fold" -> call.args[1]
      [] call.fn = "last" -> Null
      [] call.fn \in {"min", "max", "min_max"} -> <<>>
      [] call.fn \in {"sum", "product"} ->
            IF Len(call.args) = 0
            THEN (IF call.fn = "sum" THEN Number(0) ELSE Number(1))
            ELSE call.args[1]
      [] call.fn \in {"to_list", "to_tuple", "to_map", "to_string"} -> <<>>
      [] call.fn = "extend" -> call.map

\* the loop body of the function called
Body(call, acc, output) ==
    CASE call.fn = "all" -> AllBody(call.fs[1], acc, output)
      [] call.fn = "any" -> AnyBody(call.fs[1], acc, output)
      [] call.fn = "consume" ->
            IF Len(call.fs) = 0 THEN ConsumeBody(acc, output)
            ELSE ConsumeWithBody(call.fs[1], acc, output)
      [] call.fn = "count" -> CountBody(acc, output)
      [] call.fn = "find" -> FindBody(call.fs[1], acc, output)
      [] call.fn = "fold" -> FoldBody(call.fs[1], acc, output)
      [] call.fn = "last" -> LastBody(acc, output)
      [] call.fn \in {"min", "max"} ->
            IF Len(call.fs) = 0 THEN ComparisonBody(call.fn = "max", acc, output)
            ELSE ComparisonByKeyBody(call.fs[1], call.fn = "max", acc, output)
      [] call.fn = "min_max" ->
            IF Len(call.fs) = 0 THEN MinMaxBody(acc, output)
            ELSE MinMaxByKeyBody(call.fs[1], acc, output)
      [] call.fn = "position" -> PositionBody(call.fs[1], acc, output)
      [] call.fn = "sum" -> FoldWithOperatorBody("Add", acc, output)
      [] call.fn = "product" -> FoldWithOperatorBody("Multiply", acc, output)
      [] call.fn \in {"to_list", "to_tuple"} -> ToListBody(acc, output)
      [] call.fn = "to_map" -> ToMapBody(acc, output)
      [] call.fn = "to_string" -> ToStringBody(acc, output)
      [] call.fn = "extend" -> ExtendBody(acc, output)

List(items) == [t |-> "List", items |-> items]
Map(data) == [t |-> "Map", data |-> data]
Iterator(iter) == [t |-> "Iterator", iter |-> iter]

\* what the function returns when the loop ends at None
Finish(call, acc) ==
    CASE call.fn = "all" -> Ok(Bool(TRUE))
      [] call.fn = "any" -> Ok(Bool(FALSE))
      [] call.fn = "consume" -> Ok(Null)
      [] call.fn = "count" -> Ok(Number(acc))
      [] call.fn \in {"find", "position"} -> Ok(Null)
      [] call.fn \in {"fold", "last", "sum", "product"} -> Ok(acc)
      [] call.fn \in {"min", "max"} ->
            IF Len(acc) = 0 THEN Ok(Null)
            ELSE IF Len(call.fs) = 0 THEN Ok(acc[1])
            ELSE Ok(acc[1].value)
      [] call.fn = "min_max" ->
            IF Len(acc) = 0 THEN Ok(Null)
            ELSE IF Len(call.fs) = 0 THEN Ok(Tuple(<<acc[1].min, acc[1].max>>))
            ELSE Ok(Tuple(<<acc[1].min.value, acc[1].max.value>>))
      [] call.fn = "to_list" -> Ok(List(acc))
      [] call.fn = "to_tuple" -> Ok(Tuple(acc))
      [] call.fn \in {"to_map", "extend"} -> Ok(Map(acc))
      [] call.fn = "to_string" -> Ok(Str(acc))

\* The outcome of a library call: what it returned, the handle as the call
\* left it, the data of the receiving map as the call left it, and the calls
\* of script functions and binary operators it made, in order.
Outcome(result, iter, map_data, calls) ==
    [result |-> result, iter |-> iter, map |-> map_data, calls |-> calls]

\* the receiving map's data after a call whose loop variables are acc
MapAfter(call, acc) == IF call.fn = "extend" THEN acc ELSE call.map

\* the element of a set of one element
The(S) == CHOOSE x \in S : TRUE

RECURSIVE Drain(_, _, _, _)
\* the loop after one pass b through its body, made for the output n.output
AfterBody(call, n, b, calls) ==
    IF b.ctl = "return"
    THEN Outcome(b.result, n.iter, MapAfter(call, b.acc), calls \o n.calls \o b.calls)
    ELSE Drain(call, n.iter, b.acc, calls \o n.calls \o b.calls)

\* the loop after iterator.next() has returned n
AfterNext(call, n, acc, calls) ==
    IF n.output = None
    THEN Outcome(Finish(call, acc), n.iter, MapAfter(call, acc), calls \o n.calls)
    ELSE The({AfterBody(call, n, b, calls) : b \in {Body(call, acc, n.output)}})

\* `for output in iterator { body }` followed by the function's last expression
Drain(call, iter, acc, calls) ==
    The({AfterNext(call, n, a, c) : n \in {IterNext(iter)}, a \in {acc}, c \in {calls}})

RECURSIVE SkipLoop(_, _, _)
\* skip after iter.next() has returned r, with n more outputs to skip
SkipNext(r, n, calls) ==
    IF r.output.type = "Error"
    THEN Outcome(Err(r.output.error), r.iter, <<>>, calls \o r.calls)
    ELSE SkipLoop(r.iter, n, calls \o r.calls)

\* skip: `for _ in 0..n { if let Some(Output::Error(error)) = iter.next() ... }`
SkipLoop(iter, n, calls) ==
    IF n = 0 THEN Outcome(Ok(Iterator(iter)), iter, <<>>, calls)
    ELSE The({SkipNext(r, n - 1, c) : r \in {IterNext(iter)}, c \in {calls}})

\* make_iterator: an Iterator is its own handle; for a List, a producer of the
\* list's elements in order, which reads the list and leaves it as it is
MakeIterator(value) ==
    IF value.t = "Iterator" THEN value.iter
    ELSE SourceIter([i \in 1..Len(value.items) |-> Value(value.items[i])])

\* the outcome of a function that returns without a next() call on the handle
Built(result, call) == Outcome(result, call.iter, <<>>, <<>>)

\* an adaptor's construction failure as the function named returns it
Prefixed(name, failure) == Err(<<name>> \o failure.error)

\* is the argument list one Number that satisfies the guard
OneNumber(args, least) ==
    /\ Len(args) = 1
    /\ args[1].t = "Number"
    /\ args[1].n >= least

\* iterator.chain
Chain(call) ==
    IF Len(call.args) = 1 /\ call.args[1].t \in {"Iterator", "List"}
    THEN Ok(Iterator(ChainIter(call.iter, MakeIterator(call.args[1]))))
    ELSE TypeErrorWithSlice("two iterable values", call.args)

\* iterator.chunks
Chunks(call) ==
    IF OneNumber(call.args, 0)
    THEN LET made == ChunksNew(call.iter, call.args[1].n)
         IN  IF made.ok THEN Ok(Iterator(made.value))
             ELSE Prefixed("iterator.chunks: ", made)
    ELSE TypeErrorWithSlice("an iterable and a chunk size greater than zero", call.args)

\* iterator.reversed
Reversed(call) ==
    IF Len(call.args) = 0
    THEN LET made == ReversedNew(call.iter)
         IN  IF made.ok THEN Ok(Iterator(made.value))
             ELSE Prefixed("iterator.reversed: ", made)
    ELSE TypeErrorWithSlice("an iterable and non-negative number", call.args)

\* iterator.skip
Skip(call) ==
    IF OneNumber(call.args, 0) THEN SkipLoop(call.iter, call.args[1].n, <<>>)
    ELSE Built(TypeErrorWithSlice("an iterable and non-negative number", call.args), call)

\* iterator.step
Step(call) ==
    IF OneNumber(call.args, 1)
    THEN LET made == StepNew(call.iter, call.args[1].n)
         IN  IF made.ok THEN Ok(Iterator(made.value))
             ELSE Prefixed("iterator.step: ", made)
    ELSE TypeErrorWithSlice("an iterable and positive step size", call.args)

\* iterator.take that takes any Number for a count
Take_AnyNumber(call) ==
    IF Len(call.args) = 1 /\ call.args[1].t = "Number"
    THEN Ok(Iterator(TakeIter(call.iter, call.args[1].n)))
    ELSE IF Len(call.fs) = 1
    THEN Ok(Iterator(TakeWhileIter(call.iter, call.fs[1])))
    ELSE TypeErrorWithSlice("an iterable and a count or predicate", call.args)

\* iterator.take
Take(call) ==
    IF OneNumber(call.args, 0)
    THEN Ok(Iterator(TakeIter(call.iter, call.args[1].n)))
    ELSE IF Len(call.fs) = 1
    THEN Ok(Iterator(TakeWhileIter(call.iter, call.fs[1])))
    ELSE TypeErrorWithSlice("an iterable and a count or predicate", call.args)

\* iterator.windows
Windows(call) ==
    IF OneNumber(call.args, 0)
    THEN LET made == WindowsNew(call.iter, call.args[1].n)
         IN  IF made.ok THEN Ok(Iterator(made.value))
             ELSE Prefixed("iterator.windows: ", made)
    ELSE TypeErrorWithSlice("an iterable and a chunnk size greater than zero", call.args)

\* a call of a function of core.iterator, or of map.extend with an iterable
RunCall(call) ==
    CASE call.fn = "skip" -> Skip(call)
      [] call.fn = "chain" -> Built(Chain(call), call)
      [] call.fn = "chunks" -> Built(Chunks(call), call)
      [] call.fn = "reversed" -> Built(Reversed(call), call)
      [] call.fn = "step" -> Built(Step(call), call)
      [] call.fn = "take" -> Built(Take(call), call)
      [] call.fn = "windows" -> Built(Windows(call), call)
      [] OTHER -> Drain(call, call.iter, Start(call), <<>>)

----------------------------------------------------------------------------
(* core.iterator as a state machine: one library call per behaviour *)

\* the values and outputs producers are scripted with
SourceValues == {Number(1), Number(2), Number(3), Float(1)}
SourceErrors == {<<"upstream", "e1">>, <<"upstream", "e2">>}
SourceOutputs ==
    {Value(v) : v \in SourceValues}
    \cup {ValuePair(Number(1), Number(2))}
    \cup {Error(e) : e \in SourceErrors}

RECURSIVE OutputsUpTo(_)
\* the sequences of at most n outputs
OutputsUpTo(n) ==
    IF n = 0 THEN {<<>>}
    ELSE LET shorter == OutputsUpTo(n - 1)
         IN  shorter \cup {Append(s, o) : s \in shorter, o \in SourceOutputs}

Sources == {SourceIter(src) : src \in OutputsUpTo(MaxOutputs)}

\* the sequence 2, 3, 4
TwoThreeFour == <<Value(Number(2)), Value(Number(3)), Value(Number(4))>>

\* outputs that to_map and map.extend read as entries: tuples of one, two and
\* three elements, a pair and a plain value
PairOutputs ==
    {Value(Tuple(<<Number(1), Number(2)>>)), Value(Tuple(<<Number(1), Number(3)>>)),
     Value(Tuple(<<Number(2)>>)), Value(Tuple(<<Number(1), Number(2), Number(3)>>)),
     ValuePair(Number(2), Number(3)), Value(Number(1))}

PairSources ==
    {SourceIter(<<a>>) : a \in PairOutputs}
    \cup {SourceIter(<<a, b>>) : a \in PairOutputs, b \in PairOutputs}
    \cup {SourceIter(<<a, b, c>>) : a \in PairOutputs, b \in PairOutputs, c \in PairOutputs}

\* the sources of at most MaxOutputs - 1 outputs
ShortSources == {SourceIter(src) : src \in OutputsUpTo(MaxOutputs - 1)}

\* the numbers test objects are made with, and the handles over them
ObjectStarts == (0..MaxStart) \cup {10}
ObjectIters == {ObjectIter(x) : x \in ObjectStarts}

\* the size arguments of take, skip and step, and of chunks and windows
SizeArgs == (-1)..(MaxOutputs + 1)
GroupSizes == 0..(MaxOutputs + 1)

\* the pairs of producers a sequence of outputs splits into
ChainPairs(src) ==
    {<<SourceIter(SubSeq(src, 1, k)), SourceIter(SubSeq(src, k + 1, Len(src)))>> :
        k \in 0..Len(src)}

\* the iterators chain returns for them
Chained(src) ==
    {Chain(LibCall("chain", <<>>, <<Iterator(p[2])>>, p[1])).value.iter : p \in ChainPairs(src)}

\* the iterators chunks and windows return for the source h and a size of 1
\* or more
Grouped(h) ==
    {Chunks(LibCall("chunks", <<>>, <<Number(n)>>, h)).value.iter : n \in GroupSizes \ {0}}
    \cup {Windows(LibCall("windows", <<>>, <<Number(n)>>, h)).value.iter :
             n \in GroupSizes \ {0}}

\* object.skip(3).reversed().take(m): the iterator each call returns is the
\* receiver of the next
SkipReversedTake(object, m) ==
    LET skipped == Skip(LibCall("skip", <<>>, <<Number(3)>>, object)).result.value.iter
        reversed == Reversed(LibCall("reversed", <<>>, <<>>, skipped)).value.iter
    IN  Take(LibCall("take", <<>>, <<Number(m)>>, reversed)).value.iter

\* the source h behind one keep, each or take-while adaptor
Adapted(h) ==
    {KeepIter(h, f) : f \in Callables}
    \cup {EachIter(h, f) : f \in Callables}
    \cup {TakeWhileIter(h, f) : f \in Callables}

NoCall == LibCall("none", <<>>, <<>>, SourceIter(<<>>))
NoOutcome == Outcome(Ok(Null), SourceIter(<<>>), <<>>, <<>>)

\* the script holds a handle and has made no call on it
LibInit ==
    /\ lib_call \in {LibCall("none", <<>>, <<>>, h) :
                       h \in Sources \cup PairSources \cup ObjectIters
                             \cup {SourceIter(TwoThreeFour)}}
    /\ lib_outcome = NoOutcome

\* no library call has been made
LibIdle ==
    /\ lib_call = NoCall
    /\ lib_outcome = NoOutcome

\* no library call has been made yet
Idle == lib_call.fn = "none"

\* the handle the script holds before its call, where it is one of receivers
Held(receivers) == {h \in {lib_call.iter} : h \in receivers}

\* the call runs to its return
Do(call) ==
    /\ lib_call' = call
    /\ lib_outcome' = RunCall(call)
    /\ UNCHANGED <<str_vars, map_vars, obj_vars, nxt_vars, poetry_vars>>

CallAll ==
    /\ Idle
    /\ \E h \in Held(Sources), f \in Callables : Do(LibCall("all", <<f>>, <<>>, h))

CallAny ==
    /\ Idle
    /\ \E h \in Held(Sources), f \in Callables : Do(LibCall("any", <<f>>, <<>>, h))

CallConsume ==
    /\ Idle
    /\ \E call \in {LibCall("consume", <<>>, <<>>, h) : h \in Held(Sources)}
                    \cup {LibCall("consume", <<f>>, <<>>, h) : h \in Held(Sources), f \in Callables} :
          Do(call)

CallCount ==
    /\ Idle
    /\ \E call \in {LibCall("count", <<>>, <<>>, h) :
                       h \in UNION {{s} \cup Adapted(s) \cup Chained(s.src) : s \in Held(Sources)}} :
          Do(call)

CallFind ==
    /\ Idle
    /\ \E h \in Held(Sources), f \in Callables : Do(LibCall("find", <<f>>, <<>>, h))

CallFold ==
    /\ Idle
    /\ \E h \in Held(Sources), initial \in {Null, Number(0)}, f \in Callables :
           Do(LibCall("fold", <<f>>, <<initial>>, h))

CallLast ==
    /\ Idle
    /\ \E h \in Held(Sources) : Do(LibCall("last", <<>>, <<>>, h))

CallMax ==
    /\ Idle
    /\ \E call \in {LibCall("max", <<>>, <<>>, h) : h \in Held(Sources)}
                    \cup {LibCall("max", <<f>>, <<>>, h) : h \in Held(Sources), f \in Callables} :
          Do(call)

CallMin ==
    /\ Idle
    /\ \E call \in {LibCall("min", <<>>, <<>>, h) : h \in Held(Sources)}
                    \cup {LibCall("min", <<f>>, <<>>, h) : h \in Held(Sources), f \in Callables} :
          Do(call)

CallMinMax ==
    /\ Idle
    /\ \E call \in {LibCall("min_max", <<>>, <<>>, h) : h \in Held(Sources)}
                    \cup {LibCall("min_max", <<f>>, <<>>, h) : h \in Held(Sources), f \in Callables} :
          Do(call)

CallPosition ==
    /\ Idle
    /\ \E h \in Held(Sources), f \in Callables : Do(LibCall("position", <<f>>, <<>>, h))

CallProduct ==
    /\ Idle
    /\ \E call \in {LibCall("product", <<>>, <<>>, h) :
                       h \in Held(Sources \cup {SourceIter(TwoThreeFour)})}
                    \cup {LibCall("product", <<>>, <<Number(2)>>, h) : h \in Held(Sources)} :
          Do(call)

CallSkip ==
    /\ Idle
    /\ \E h \in Held(Sources \cup ObjectIters), n \in SizeArgs :
          Do(LibCall("skip", <<>>, <<Number(n)>>, h))

CallChain ==
    /\ Idle
    /\ \E s \in Held(Sources) :
          \E p \in ChainPairs(s.src) : Do(LibCall("chain", <<>>, <<Iterator(p[2])>>, p[1]))

CallChunks ==
    /\ Idle
    /\ \E h \in Held(Sources), n \in GroupSizes : Do(LibCall("chunks", <<>>, <<Number(n)>>, h))

CallReversed ==
    /\ Idle
    /\ \E h \in Held(Sources \cup ObjectIters) : Do(LibCall("reversed", <<>>, <<>>, h))

CallStep ==
    /\ Idle
    /\ \E h \in Held(Sources), n \in SizeArgs : Do(LibCall("step", <<>>, <<Number(n)>>, h))

CallTake ==
    /\ Idle
    /\ \E call \in {LibCall("take", <<>>, <<Number(n)>>, h) : h \in Held(Sources), n \in SizeArgs}
                    \cup {LibCall("take", <<f>>, <<>>, h) :
                             h \in Held(ShortSources), f \in Callables} :
          Do(call)

CallWindows ==
    /\ Idle
    /\ \E h \in Held(Sources), n \in GroupSizes : Do(LibCall("windows", <<>>, <<Number(n)>>, h))

CallSum ==
    /\ Idle
    /\ \E call \in {LibCall("sum", <<>>, args, h) :
                       h \in Held(Sources), args \in {<<>>, <<Number(2)>>}} :
          Do(call)

CallToList ==
    /\ Idle
    /\ \E call \in {LibCall("to_list", <<>>, <<>>, h) :
                       h \in UNION {{s} \cup Adapted(s) \cup Grouped(s) : s \in Held(Sources)}} :
          Do(call)

\* to_list called with the list an earlier to_list returned
CallToListOfList ==
    /\ lib_call.fn = "to_list"
    /\ lib_outcome.result.ok
    /\ Do(LibCall("to_list", <<>>, <<lib_outcome.result.value>>,
                  MakeIterator(lib_outcome.result.value)))

CallToMap ==
    /\ Idle
    /\ \E h \in Held(Sources \cup PairSources) : Do(LibCall("to_map", <<>>, <<>>, h))

CallToString ==
    /\ Idle
    /\ \E h \in Held(Sources) : Do(LibCall("to_string", <<>>, <<>>, h))

CallToTuple ==
    /\ Idle
    /\ \E call \in {LibCall("to_tuple", <<>>, <<>>, h) :
                       h \in UNION {{s} \cup Adapted(s) \cup Chained(s.src) : s \in Held(Sources)}}
                    \cup {LibCall("to_tuple", <<>>, <<>>, SkipReversedTake(object, m)) :
                             object \in Held(ObjectIters), m \in 0..MaxOutputs} :
          Do(call)

CallExtend ==
    /\ Idle
    /\ \E h \in Held(Sources \cup PairSources), m \in {<<>>, <<Entry(Number(1), Bool(TRUE))>>} :
           Do(ExtendCall(m, h))

LibStep ==
    \/ CallAll
    \/ CallAny
    \/ CallConsume
    \/ CallCount
    \/ CallFind
    \/ CallFold
    \/ CallLast
    \/ CallMax
    \/ CallMin
    \/ CallMinMax
    \/ CallPosition
    \/ CallProduct
    \/ CallSkip
    \/ CallChain
    \/ CallChunks
    \/ CallReversed
    \/ CallStep
    \/ CallTake
    \/ CallWindows
    \/ CallSum
    \/ CallToList
    \/ CallToListOfList
    \/ CallToMap
    \/ CallToString
    \/ CallToTuple
    \/ CallExtend

----------------------------------------------------------------------------
(* core.map: sort with a key function, update, insert, clear *)

\* value_sort::compare_values(vm, a, b): Less when a < b, Greater when b < a,
\* Equal otherwise; an error when the values cannot be compared
SortCompareValues(a, b) ==
    LET less == RunBinaryOp("Less", a, b)
        greater == RunBinaryOp("Less", b, a)
    IN  IF ~less.ok THEN less
        ELSE IF less.value.b THEN Ok("Less")
        ELSE IF ~greater.ok THEN greater
        ELSE IF greater.value.b THEN Ok("Greater")
        ELSE Ok("Equal")

\* error = Some(Err(e)): the latch takes every error
GetOrInsert_Overwrite(error, e) == <<e>>

\* error.get_or_insert(Err(e)): the latch takes an error only when it is empty
GetOrInsert(error, e) == IF Len(error) = 0 THEN <<e>> ELSE error

\* SortKey that never looks into the cache
SortKey_NoCache(f, cache, error, key, value) ==
    LET r == RunFunction(f, Separate(key, value))
        call == <<Call(f, Separate(key, value))>>
    IN  IF r.ok
        THEN [value |-> r.value, cache |-> MapInsert(cache, key, r.value),
              error |-> error, calls |-> call, raised |-> <<>>]
        ELSE [value |-> Null, cache |-> cache,
              error |-> GetOrInsert(error, r.error),
              calls |-> call, raised |-> <<r.error>>]

\* the sort key of an entry: cache.get(key), or else get_sort_key, whose
\* result is cached when the key function succeeds and is Null, with the
\* error latched, when it fails
SortKey(f, cache, error, key, value) ==
    IF ContainsKey(cache, key)
    THEN [value |-> MapGet(cache, key), cache |-> cache, error |-> error,
          calls |-> <<>>, raised |-> <<>>]
    ELSE LET r == RunFunction(f, Separate(key, value))
             call == <<Call(f, Separate(key, value))>>
         IN  IF r.ok
             THEN [value |-> r.value, cache |-> MapInsert(cache, key, r.value),
                   error |-> error, calls |-> call, raised |-> <<>>]
             ELSE [value |-> Null, cache |-> cache,
                   error |-> GetOrInsert(error, r.error),
                   calls |-> call, raised |-> <<r.error>>]

\* the comparator without its guard on the latch
Comparator_NoShortCircuit(f, cache, error, a, b) ==
    LET value_a == SortKey(f, cache, error, a.key, a.value)
        value_b == SortKey(f, value_a.cache, value_a.error, b.key, b.value)
        c == SortCompareValues(value_a.value, value_b.value)
    IN  [ordering |-> IF c.ok THEN c.value ELSE "Equal",
         cache |-> value_b.cache,
         error |-> IF c.ok THEN value_b.error ELSE GetOrInsert(value_b.error, c.error),
         calls |-> value_a.calls \o value_b.calls,
         compared |-> TRUE,
         raised |-> value_a.raised \o value_b.raised
                    \o (IF c.ok THEN <<>> ELSE <<c.error>>)]

\* the comparator comparing the sort key of b with that of a
Comparator_SwappedKeys(f, cache, error, a, b) ==
    IF Len(error) > 0
    THEN [ordering |-> "Equal", cache |-> cache, error |-> error,
          calls |-> <<>>, compared |-> FALSE, raised |-> <<>>]
    ELSE Comparator_NoShortCircuit(f, cache, error, b, a)

\* One invocation of the closure map.sort hands to sort_by, on entries a and
\* b: the ordering it returns, the cache and the latch as it leaves them, the
\* key-function calls it made, whether it compared two sort keys, and the
\* errors raised while it ran.
Comparator(f, cache, error, a, b) ==
    IF Len(error) > 0
    THEN [ordering |-> "Equal", cache |-> cache, error |-> error,
          calls |-> <<>>, compared |-> FALSE, raised |-> <<>>]
    ELSE Comparator_NoShortCircuit(f, cache, error, a, b)

\* key_a.partial_cmp(key_b) on two map keys: <<ordering>>, or <<>> for None.
\* Number keys are ordered by value; keys of other kinds are taken to be
\* comparable only when equal.
KeyPartialCmp(key_a, key_b) ==
    IF IsNumber(key_a) /\ IsNumber(key_b)
    THEN (IF key_a.n < key_b.n THEN <<"Less">>
          ELSE IF key_a.n > key_b.n THEN <<"Greater">>
          ELSE <<"Equal">>)
    ELSE IF key_a = key_b THEN <<"Equal">>
    ELSE <<>>

\* One invocation of the closure map.sort hands to sort_by when no key
\* function is given.
KeyComparator(error, a, b) ==
    IF Len(error) > 0
    THEN [ordering |-> "Equal", cache |-> <<>>, error |-> error,
          calls |-> <<>>, compared |-> FALSE, raised |-> <<>>]
    ELSE LET c == KeyPartialCmp(a.key, b.key)
             invalid == <<"Invalid map key encountered">>
         IN  [ordering |-> IF Len(c) > 0 THEN c[1] ELSE "Equal",
              cache |-> <<>>,
              error |-> IF Len(c) > 0 THEN error ELSE <<invalid>>,
              calls |-> <<>>,
              compared |-> TRUE,
              raised |-> IF Len(c) > 0 THEN <<>> ELSE <<invalid>>]

\* the keys and values of the maps
MapKeys == {Number(k) : k \in 1..MaxKeys}
MapValues == {Null, Number(1), Number(2)}

\* the script functions and the default values passed to map.update
UpdateFunctions == {"identity", "throws_on_2"}
UpdateDefaults == {<<>>, <<Number(1)>>, <<Number(2)>>}

\* A core.map call is [fn, f, key, default, value, arg, before, pc]: the
\* function, its callable, key and default arguments, the value inserted by
\* insert or handed to the transform function by update or the map that
\* extend is given, how the argument of extend is related to the receiver,
\* for sort, update and extend the entries of the map as the call was made,
\* and where the call is: not made ("idle"), inside sort_by ("sort"), inside
\* the transform function of update ("update_f"), inside extend with the
\* receiver's data borrowed ("extend"), returned ("done"), ended by a panic
\* ("panicked") or waiting for a lock for ever ("blocked").
NoMapCall ==
    [fn |-> "none", f |-> "", key |-> <<>>, default |-> <<>>, value |-> <<>>,
     arg |-> "", before |-> <<>>, pc |-> "idle"]
NoSort == [i |-> 0, j |-> 0, cache |-> <<>>, error |-> <<>>, log |-> <<>>]

MapIdle ==
    /\ map_entries = <<>>
    /\ map_call = NoMapCall
    /\ map_sort = NoSort
    /\ map_result = <<>>
    /\ map_order = <<>>

\* no core.map call is in progress and the result of the last one has been taken
MapReady == map_call.pc = "idle"

\* the caller takes the result of the call that has returned; the map stays
TakeResult ==
    /\ map_call.pc = "done"
    /\ map_call' = NoMapCall
    /\ map_sort' = NoSort
    /\ map_result' = <<>>
    /\ UNCHANGED <<map_entries, map_order>>
    /\ UNCHANGED <<str_vars, lib_vars, obj_vars, nxt_vars, poetry_vars>>

\* a call that returns at once
MapReturn(fn, key, value, result) ==
    /\ map_call' = [fn |-> fn, f |-> "", key |-> key, default |-> <<>>,
                    value |-> value, arg |-> "", before |-> <<>>, pc |-> "done"]
    /\ map_result' = <<result>>

\* map.clear
ClearCall ==
    /\ MapReady
    /\ Len(map_entries) > 0
    /\ map_entries' = <<>>
    /\ MapReturn("clear", <<>>, <<>>, Ok(Map(<<>>)))
    /\ map_sort' = NoSort
    /\ map_order' = <<>>
    /\ UNCHANGED <<str_vars, lib_vars, obj_vars, nxt_vars, poetry_vars>>

\* map.insert(key) and map.insert(key, value)
InsertCall ==
    /\ MapReady
    /\ \E key \in MapKeys, value \in {<<>>} \cup {<<v>> : v \in MapValues} :
          LET inserted == IF Len(value) = 0 THEN Null ELSE value[1]
          IN  /\ map_entries' = MapInsert(map_entries, key, inserted)
              /\ map_order' = IF ContainsKey(map_entries, key) THEN map_order
                              ELSE Append(map_order, key)
              /\ MapReturn("insert", <<key>>, value,
                           IF ContainsKey(map_entries, key)
                           THEN Ok(MapGet(map_entries, key)) ELSE Ok(Null))
    /\ map_sort' = NoSort
    /\ UNCHANGED <<str_vars, lib_vars, obj_vars, nxt_vars, poetry_vars>>

\* ValueMap::swap_remove(key): the last entry takes the place of the removed one
MapSwapRemove(data, key) ==
    IF ~ContainsKey(data, key) THEN data
    ELSE LET p == IndexOfKey(data, key)
         IN  [i \in 1..(Len(data) - 1) |-> IF i = p THEN data[Len(data)] ELSE data[i]]

\* ValueMap::shift_remove(key): the entries after the removed one move up
MapShiftRemove(data, key) ==
    IF ~ContainsKey(data, key) THEN data
    ELSE LET p == IndexOfKey(data, key)
         IN  [i \in 1..(Len(data) - 1) |-> IF i < p THEN data[i] ELSE data[i + 1]]

\* map.remove(key) with swap_remove in the place of shift_remove
RemoveCall_SwapRemove ==
    /\ MapReady
    /\ \E key \in MapKeys :
          /\ map_entries' = MapSwapRemove(map_entries, key)
          /\ map_call' = [fn |-> "remove", f |-> "", key |-> <<key>>, default |-> <<>>,
                          value |-> <<>>, arg |-> "", before |-> map_entries, pc |-> "done"]
          /\ map_result' = <<IF ContainsKey(map_entries, key)
                             THEN Ok(MapGet(map_entries, key)) ELSE Ok(Null)>>
          /\ map_order' = SelectSeq(map_order, LAMBDA k : ~KeyEq(k, key))
    /\ map_sort' = NoSort
    /\ UNCHANGED <<str_vars, lib_vars, obj_vars, nxt_vars, poetry_vars>>

\* map.remove(key)
RemoveCall ==
    /\ MapReady
    /\ \E key \in MapKeys :
          /\ map_entries' = MapShiftRemove(map_entries, key)
          /\ map_call' = [fn |-> "remove", f |-> "", key |-> <<key>>, default |-> <<>>,
                          value |-> <<>>, arg |-> "", before |-> map_entries, pc |-> "done"]
          /\ map_result' = <<IF ContainsKey(map_entries, key)
                             THEN Ok(MapGet(map_entries, key)) ELSE Ok(Null)>>
          /\ map_order' = SelectSeq(map_order, LAMBDA k : ~KeyEq(k, key))
    /\ map_sort' = NoSort
    /\ UNCHANGED <<str_vars, lib_vars, obj_vars, nxt_vars, poetry_vars>>

\* ValueMap::get_index(index) as map.get_index returns it: the entry at the
\* 0-based index as a tuple, or the default
GetIndex(data, index, default) ==
    IF index < Len(data)
    THEN Tuple(<<data[index + 1].key, data[index + 1].value>>)
    ELSE default

\* map.get_index(index)
GetIndexCall ==
    /\ MapReady
    /\ Len(map_entries) > 0
    /\ \E index \in 0..MaxKeys :
          MapReturn("get_index", <<Number(index)>>, <<>>,
                    Ok(GetIndex(map_entries, index, Null)))
    /\ map_sort' = NoSort
    /\ UNCHANGED <<map_entries, map_order>>
    /\ UNCHANGED <<str_vars, lib_vars, obj_vars, nxt_vars, poetry_vars>>

\* The receiver's data sits in a cell with a borrow checked at run time.
\* m.data_mut() is held for the whole of sort_by and for the whole of extend's
\* insertion; no other function of the model holds a borrow across a call.
DataBorrow == IF map_call.pc \in {"sort", "extend"} THEN "mut" ELSE "free"

\* can data() and data_mut() be had on a cell in the borrow state given
TryData(borrow) == borrow # "mut"
TryDataMut(borrow) == borrow = "free"

\* how a refused borrow ends the call: the reference-counted cell panics, the
\* lock of a build with thread-safe cells waits for ever
BorrowFailures == {"panicked", "blocked"}

\* key functions that reach the map being sorted:
\*   reads_m   |key, value| m.get(key)
\*   writes_m  |key, value| m.insert(key, value)
ReceiverFunctions == {"reads_m", "writes_m"}

\* how the argument of extend is related to the receiver m: m itself, an
\* iterator over m, another map, an iterator over another map
ExtendArguments == {"m", "iterator over m", "other", "iterator over other"}

\* the maps extend is given when the argument is not the receiver
OtherMaps ==
    {<<>>, <<Entry(Number(1), Number(2))>>,
     <<Entry(Number(3), Null), Entry(Number(1), Number(1))>>}

RECURSIVE ExtendEntries(_, _, _)
\* the insertions of extend: the entries of other from the i-th on go into data
ExtendEntries(data, other, i) ==
    IF i > Len(other) THEN data
    ELSE ExtendEntries(MapInsert(data, other[i].key, other[i].value), other, i + 1)

\* the keys of data in order
KeysOf(data) == [i \in 1..Len(data) |-> data[i].key]

\* map.sort() and map.sort(f) up to the call of sort_by; f is "" when no key
\* function is given
SortCall ==
    /\ MapReady
    /\ \E f \in SortKeyFunctions \cup ReceiverFunctions \cup {""} :
          map_call' = [fn |-> "sort", f |-> f, key |-> <<>>, default |-> <<>>,
                       value |-> <<>>, arg |-> "", before |-> map_entries, pc |-> "sort"]
    /\ map_sort' = [i |-> 2, j |-> 2, cache |-> <<>>, error |-> <<>>, log |-> <<>>]
    /\ map_result' = <<>>
    /\ UNCHANGED <<map_entries, map_order>>
    /\ UNCHANGED <<str_vars, lib_vars, obj_vars, nxt_vars, poetry_vars>>

\* the entries with those at positions j - 1 and j exchanged
Swap(data, j) == [data EXCEPT ![j - 1] = data[j], ![j] = data[j - 1]]

\* One step of sort_by, which sorts the entries in place by insertion: the
\* entry at j, on its way down from i, is compared with the one before it and
\* moves before it when the comparator says Less.
SortCompare ==
    /\ map_call.pc = "sort"
    /\ map_sort.i <= Len(map_entries)
    /\ map_call.f \notin ReceiverFunctions
    /\ LET a == map_entries[map_sort.j]
           b == map_entries[map_sort.j - 1]
           c == IF map_call.f = "" THEN KeyComparator(map_sort.error, a, b)
                ELSE Comparator(map_call.f, map_sort.cache, map_sort.error, a, b)
           is_less == c.ordering = "Less"
           moves_on == is_less /\ map_sort.j > 2
           invocation == [a |-> a.key, b |-> b.key,
                          calls |-> c.calls, compared |-> c.compared,
                          ordering |-> c.ordering, raised |-> c.raised]
       IN  /\ map_entries' = IF is_less THEN Swap(map_entries, map_sort.j) ELSE map_entries
           /\ map_order' = IF is_less THEN Swap(map_order, map_sort.j) ELSE map_order
           /\ map_sort' = [i |-> IF moves_on THEN map_sort.i ELSE map_sort.i + 1,
                           j |-> IF moves_on THEN map_sort.j - 1 ELSE map_sort.i + 1,
                           cache |-> c.cache,
                           error |-> c.error,
                           log |-> Append(map_sort.log, invocation)]
    /\ UNCHANGED <<map_call, map_result>>
    /\ UNCHANGED <<str_vars, lib_vars, obj_vars, nxt_vars, poetry_vars>>

\* map.sort() and map.sort(f) after sort_by has returned
SortReturn ==
    /\ map_call.pc = "sort"
    /\ map_sort.i > Len(map_entries)
    /\ map_call' = [map_call EXCEPT !.pc = "done"]
    /\ map_result' = <<IF Len(map_sort.error) > 0 THEN Err(map_sort.error[1])
                       ELSE Ok(Map(map_entries))>>
    /\ UNCHANGED <<map_entries, map_sort, map_order>>
    /\ UNCHANGED <<str_vars, lib_vars, obj_vars, nxt_vars, poetry_vars>>

\* the comparator of sort_by calls a key function that reaches the receiver
\* while m.data_mut() is held: m.get asks for data(), m.insert for data_mut()
SortBorrowFailure ==
    /\ map_call.pc = "sort"
    /\ map_sort.i <= Len(map_entries)
    /\ map_call.f \in ReceiverFunctions
    /\ IF map_call.f = "reads_m" THEN ~TryData(DataBorrow) ELSE ~TryDataMut(DataBorrow)
    /\ \E failure \in BorrowFailures : map_call' = [map_call EXCEPT !.pc = failure]
    /\ UNCHANGED <<map_entries, map_sort, map_result, map_order>>
    /\ UNCHANGED <<str_vars, lib_vars, obj_vars, nxt_vars, poetry_vars>>

\* map.extend(other) up to m.data_mut(): in the Map arm the receiver of
\* extend is borrowed before the argument is evaluated, in the iterable arm
\* map_data is borrowed before the loop pulls from the iterator
MapExtendCall ==
    /\ MapReady
    /\ \E arg \in ExtendArguments :
          \E other \in IF arg \in {"m", "iterator over m"} THEN {map_entries} ELSE OtherMaps :
              map_call' = [fn |-> "extend", f |-> "", key |-> <<>>, default |-> <<>>,
                           value |-> <<Map(other)>>, arg |-> arg,
                           before |-> map_entries, pc |-> "extend"]
    /\ map_sort' = NoSort
    /\ map_result' = <<>>
    /\ UNCHANGED <<map_entries, map_order>>
    /\ UNCHANGED <<str_vars, lib_vars, obj_vars, nxt_vars, poetry_vars>>

\* map.extend(other) from there: other.data() in the Map arm, the iterator's
\* next() in the iterable arm, each of which reads the map it is over
MapExtendReturn ==
    /\ map_call.pc = "extend"
    /\ IF map_call.arg \in {"m", "iterator over m"} /\ ~TryData(DataBorrow)
       THEN /\ \E failure \in BorrowFailures : map_call' = [map_call EXCEPT !.pc = failure]
            /\ UNCHANGED <<map_entries, map_result, map_order>>
       ELSE /\ map_entries' = ExtendEntries(map_entries, map_call.value[1].data, 1)
            /\ map_order' = KeysOf(ExtendEntries(map_entries, map_call.value[1].data, 1))
            /\ map_result' = <<Ok(Map(ExtendEntries(map_entries, map_call.value[1].data, 1)))>>
            /\ map_call' = [map_call EXCEPT !.pc = "done"]
    /\ UNCHANGED map_sort
    /\ UNCHANGED <<str_vars, lib_vars, obj_vars, nxt_vars, poetry_vars>>

\* map.update(key, f) and map.update(key, default, f), and do_map_update up to
\* its call of the transform function
UpdateCall ==
    /\ MapReady
    /\ \E key \in MapKeys, default \in UpdateDefaults, f \in UpdateFunctions :
          LET default_value == IF Len(default) = 0 THEN Null ELSE default[1]
              data == IF ~ContainsKey(map_entries, key)
                      THEN MapInsert(map_entries, key, default_value)
                      ELSE map_entries
          IN  /\ map_entries' = data
              /\ map_order' = IF ContainsKey(map_entries, key) THEN map_order
                              ELSE Append(map_order, key)
              /\ map_call' = [fn |-> "update", f |-> f, key |-> <<key>>,
                              default |-> default,
                              value |-> <<MapGet(data, key)>>,
                              arg |-> "", before |-> map_entries, pc |-> "update_f"]
    /\ map_result' = <<>>
    /\ map_sort' = NoSort
    /\ UNCHANGED <<str_vars, lib_vars, obj_vars, nxt_vars, poetry_vars>>

\* UpdateReturn that does not store the result of the transform function
UpdateReturn_NoStore ==
    /\ map_call.pc = "update_f"
    /\ map_result' = <<RunFunction(map_call.f, Single(map_call.value[1]))>>
    /\ map_call' = [map_call EXCEPT !.pc = "done"]
    /\ UNCHANGED <<map_entries, map_sort, map_order>>
    /\ UNCHANGED <<str_vars, lib_vars, obj_vars, nxt_vars, poetry_vars>>

\* do_map_update from the return of the transform function
UpdateReturn ==
    /\ map_call.pc = "update_f"
    /\ LET r == RunFunction(map_call.f, Single(map_call.value[1]))
       IN  /\ map_entries' = IF r.ok THEN MapInsert(map_entries, map_call.key[1], r.value)
                          ELSE map_entries
           /\ map_result' = <<r>>
    /\ map_call' = [map_call EXCEPT !.pc = "done"]
    /\ UNCHANGED <<map_sort, map_order>>
    /\ UNCHANGED <<str_vars, lib_vars, obj_vars, nxt_vars, poetry_vars>>
MapStep ==
    \/ ClearCall
    \/ GetIndexCall
    \/ InsertCall
    \/ RemoveCall
    \/ SortCall
    \/ SortCompare
    \/ SortReturn
    \/ SortBorrowFailure
    \/ MapExtendCall
    \/ MapExtendReturn
    \/ UpdateCall
    \/ UpdateReturn
    \/ TakeResult

----------------------------------------------------------------------------
(* The test objects: an iterator handle backed by a TestIterator *)

\* iter_output_to_result: what iterator.next and iterator.next_back return for
\* the output of the handle
iter_output_to_result(output) ==
    CASE output.type = "Value" -> Ok(output.value)
      [] output.type = "ValuePair" -> Ok(Tuple(<<output.first, output.second>>))
      [] output.type = "Error" -> Err(output.error)
      [] output.type = "None" -> Ok(Null)

\* no script is running
ScriptIdle ==
    /\ scr_heap = <<>>
    /\ scr_env = [name \in {"x", "y", "z"} |-> 0]
    /\ scr_last = [op |-> "none", name |-> "", rhs |-> Null]
    /\ scr_count = 0
    /\ scr_result = <<>>

\* no test object is in use
ObjIdle ==
    /\ obj_iter = TestIteratorNew(0)
    /\ obj_yielded = <<>>
    /\ ScriptIdle

\* TestObject::make_iterator for make_object(x): a handle on TestIterator { x }
ObjInit ==
    /\ obj_iter \in {TestIteratorNew(x) : x \in 0..MaxStart}
    /\ obj_yielded = <<>>
    /\ ScriptIdle

\* iterator.next(handle)
NextCall ==
    /\ Len(obj_yielded) < MaxObjectCalls
    /\ LET r == TestIteratorNext(obj_iter)
       IN  /\ obj_iter' = r.iter
           /\ obj_yielded' = Append(obj_yielded,
                                    [back |-> FALSE, result |-> iter_output_to_result(r.output)])
    /\ UNCHANGED <<str_vars, lib_vars, map_vars, scr_vars, nxt_vars, poetry_vars>>

\* iterator.next_back(handle)
NextBackCall ==
    /\ Len(obj_yielded) < MaxObjectCalls
    /\ LET r == TestIteratorNextBack(obj_iter)
       IN  /\ obj_iter' = r.iter
           /\ obj_yielded' = Append(obj_yielded,
                                    [back |-> TRUE, result |-> iter_output_to_result(r.output)])
    /\ UNCHANGED <<str_vars, lib_vars, map_vars, scr_vars, nxt_vars, poetry_vars>>

ObjStep ==
    \/ NextCall
    \/ NextBackCall

----------------------------------------------------------------------------
(* The test objects: scripts over TestObject instances *)

\* TestObject { x }
TestObject(x) == [x |-> x]

\* KValue::Object for an instance: the operations below read only its x
Object(obj) == [t |-> "Object", x |-> obj.x]

\* the Rust operator a macro is expanded with, on i64 operands
ApplyOp(op, a, b) ==
    CASE op = "+=" -> a + b
      [] op = "-=" -> a - b
      [] op = "*=" -> a * b

\* assignment_op!(self, rhs, op): the instance afterwards and the result
assignment_op(self, rhs, op) ==
    CASE rhs.t = "Object" ->
           [self |-> TestObject(ApplyOp(op, self.x, rhs.x)), result |-> Ok(Null)]
      [] rhs.t = "Number" ->
           [self |-> TestObject(ApplyOp(op, self.x, rhs.n)), result |-> Ok(Null)]
      [] OTHER -> [self |-> self, result |-> TypeError("a TestObject or Number", rhs)]

\* comparison_op!(self, rhs, op) for == and !=
comparison_op(self, rhs, op) ==
    CASE rhs.t = "Object" -> Ok(Bool(IF op = "==" THEN self.x = rhs.x ELSE self.x # rhs.x))
      [] rhs.t = "Number" -> Ok(Bool(IF op = "==" THEN self.x = rhs.n ELSE self.x # rhs.n))
      [] OTHER -> TypeError("a TestObject or Number", rhs)

\* KotoObject::equal and KotoObject::not_equal for TestObject
equal(self, rhs) == comparison_op(self, rhs, "==")
not_equal(self, rhs) == comparison_op(self, rhs, "!=")

\* TestObject::invert
invert(self) == TestObject(self.x * (-1))

\* TestObject::set_all_instances
set_all_instances(self, args) ==
    IF Len(args) = 1 /\ args[1].t = "Object"
    THEN [self |-> TestObject(args[1].x), result |-> Ok(Null)]
    ELSE [self |-> self, result |-> TypeErrorWithSlice("TestExternal", args)]

\* KotoCopy::copy with #[koto(use_copy)]: the Copy of the struct
copy(self) == TestObject(self.x)

\* a copy expression that hands back the instance it was given
CopyObject_Alias(heap, at) == [heap |-> heap, at |-> at]

\* copy and deep_copy of an Object value: a new instance made by KotoCopy::copy
CopyObject(heap, at) == [heap |-> Append(heap, copy(heap[at])), at |-> Len(heap) + 1]

\* == that hands null operands to the object like any other operand
run_equal_NoNullArm(op, lhs, rhs) ==
    IF lhs.t = "Object"
    THEN IF op = "==" THEN equal(TestObject(lhs.x), rhs) ELSE not_equal(TestObject(lhs.x), rhs)
    ELSE Ok(Bool(IF op = "==" THEN lhs = rhs ELSE lhs # rhs))

\* == and != of the execution engine: null equals only null, and an Object on
\* the left decides through its own equal / not_equal
run_equal(op, lhs, rhs) ==
    IF lhs.t = "Null" \/ rhs.t = "Null"
    THEN Ok(Bool(IF op = "==" THEN lhs.t = rhs.t ELSE lhs.t # rhs.t))
    ELSE IF op = "==" THEN equal(TestObject(lhs.x), rhs) ELSE not_equal(TestObject(lhs.x), rhs)

Names == {"x", "y", "z"}
Bound(name) == scr_env[name] > 0
\* the instance a bound name refers to
Instance(name) == scr_heap[scr_env[name]]
Operands == 1..MaxOperand
Statement(op, name, rhs) == [op |-> op, name |-> name, rhs |-> rhs]
CanRun == scr_count < MaxStatements

\* x = make_object start
ScriptInit ==
    /\ \E start \in 0..MaxStart : scr_heap = <<TestObject(start)>>
    /\ scr_env = [name \in Names |-> IF name = "x" THEN 1 ELSE 0]
    /\ scr_last = Statement("make", "x", Null)
    /\ scr_count = 0
    /\ scr_result = <<>>

\* y = x
AssignCall ==
    /\ CanRun
    /\ ~Bound("y")
    /\ scr_env' = [scr_env EXCEPT !["y"] = scr_env["x"]]
    /\ scr_last' = Statement("=", "y", Null)
    /\ scr_count' = scr_count + 1
    /\ UNCHANGED <<scr_heap, scr_result>>
    /\ UNCHANGED <<str_vars, lib_vars, map_vars, obj_iter, obj_yielded, nxt_vars, poetry_vars>>

\* z = copy x and z = deep_copy x
CopyCall ==
    /\ CanRun
    /\ ~Bound("z")
    /\ \E op \in {"copy", "deep_copy"} :
          LET made == CopyObject(scr_heap, scr_env["x"])
          IN  /\ scr_heap' = made.heap
              /\ scr_env' = [scr_env EXCEPT !["z"] = made.at]
              /\ scr_last' = Statement(op, "z", Null)
    /\ scr_count' = scr_count + 1
    /\ UNCHANGED scr_result
    /\ UNCHANGED <<str_vars, lib_vars, map_vars, obj_iter, obj_yielded, nxt_vars, poetry_vars>>

\* name += rhs, name -= rhs, name *= rhs with a Number or a new TestObject
AssignOpCall ==
    /\ CanRun
    /\ \E name \in {n \in Names : Bound(n)}, op \in {"+=", "-=", "*="},
          rhs \in {Number(n) : n \in Operands} \cup {Object(TestObject(n)) : n \in Operands} :
          /\ scr_heap' = [scr_heap EXCEPT ![scr_env[name]] =
                                              assignment_op(Instance(name), rhs, op).self]
          /\ scr_last' = Statement(op, name, rhs)
    /\ scr_count' = scr_count + 1
    /\ UNCHANGED <<scr_env, scr_result>>
    /\ UNCHANGED <<str_vars, lib_vars, map_vars, obj_iter, obj_yielded, nxt_vars, poetry_vars>>

\* name.invert()
InvertCall ==
    /\ CanRun
    /\ \E name \in {n \in Names : Bound(n)} :
          /\ scr_heap' = [scr_heap EXCEPT ![scr_env[name]] = invert(Instance(name))]
          /\ scr_last' = Statement("invert", name, Null)
    /\ scr_count' = scr_count + 1
    /\ UNCHANGED <<scr_env, scr_result>>
    /\ UNCHANGED <<str_vars, lib_vars, map_vars, obj_iter, obj_yielded, nxt_vars, poetry_vars>>

\* name.set_all_instances make_object n
SetAllInstancesCall ==
    /\ CanRun
    /\ \E name \in {n \in Names : Bound(n)}, n \in Operands :
          LET rhs == Object(TestObject(n))
          IN  /\ scr_heap' = [scr_heap EXCEPT ![scr_env[name]] =
                                    set_all_instances(Instance(name), <<rhs>>).self]
              /\ scr_last' = Statement("set_all_instances", name, rhs)
    /\ scr_count' = scr_count + 1
    /\ UNCHANGED <<scr_env, scr_result>>
    /\ UNCHANGED <<str_vars, lib_vars, map_vars, obj_iter, obj_yielded, nxt_vars, poetry_vars>>

\* name == rhs, name != rhs, null == name and null != name
CompareCall ==
    /\ CanRun
    /\ \E name \in {n \in Names : Bound(n)}, op \in {"==", "!="}, swapped \in BOOLEAN,
          other \in {Null} \cup {Number(n) : n \in 0..MaxOperand}
                   \cup {Object(TestObject(n)) : n \in 0..MaxOperand} :
          /\ swapped => other.t = "Null"
          /\ LET lhs == IF swapped THEN other ELSE Object(Instance(name))
                 rhs == IF swapped THEN Object(Instance(name)) ELSE other
             IN  scr_result' = <<[op |-> op, lhs |-> lhs, rhs |-> rhs,
                                  result |-> run_equal(op, lhs, rhs)]>>
          /\ scr_last' = Statement(op, name, other)
    /\ scr_count' = scr_count + 1
    /\ UNCHANGED <<scr_heap, scr_env>>
    /\ UNCHANGED <<str_vars, lib_vars, map_vars, obj_iter, obj_yielded, nxt_vars, poetry_vars>>

ScriptStep ==
    \/ AssignCall
    \/ CopyCall
    \/ AssignOpCall
    \/ InvertCall
    \/ SetAllInstancesCall
    \/ CompareCall

----------------------------------------------------------------------------
(* iterator.next on one value, call after call *)

\* iterator.next on an Iterator value that builds a fresh iterator over the
\* same producer instead of using the shared one
next_Fresh(value) ==
    LET iter == IF value.t = "Iterator" THEN value.iter ELSE MakeIterator(value)
        output == IterNext(iter).output
    IN  [result |-> iter_output_to_result(output), value |-> value]

\* iterator.next(value): the result, and the value afterwards.  An Iterator
\* value is a shared handle (`i.clone()`), so what next() does to it is seen
\* through the value; for any other iterable make_iterator builds an iterator
\* that is dropped when the call returns.
next(value) ==
    LET iter == IF value.t = "Iterator" THEN value.iter ELSE MakeIterator(value)
        r == IterNext(iter)
    IN  [result |-> iter_output_to_result(r.output),
         value |-> IF value.t = "Iterator" THEN Iterator(r.iter) ELSE value]

\* the lists and tuples iterator.next is called on
NextItems ==
    {<<>>} \cup {<<a>> : a \in SourceValues}
    \cup {<<a, b>> : a \in SourceValues, b \in SourceValues}

\* the values iterator.next is called on: Iterator values over the sources,
\* lists and tuples
NextIterables ==
    {Iterator(h) : h \in Sources}
    \cup {List(items) : items \in NextItems}
    \cup {Tuple(items) : items \in NextItems}

\* iterator.next is not in use
NextIdle ==
    /\ nxt_iterable = Null
    /\ nxt_value = Null
    /\ nxt_results = <<>>

NextInit ==
    /\ nxt_iterable \in NextIterables
    /\ nxt_value = nxt_iterable
    /\ nxt_results = <<>>

\* iterator.next(value) or value.next()
IteratorNextCall ==
    /\ Len(nxt_results) < MaxNextCalls
    /\ LET r == next(nxt_value)
       IN  /\ nxt_value' = r.value
           /\ nxt_results' = Append(nxt_results, r.result)
    /\ UNCHANGED nxt_iterable
    /\ UNCHANGED <<str_vars, lib_vars, map_vars, obj_vars, poetry_vars>>

NextStep ==
    \/ IteratorNextCall

----------------------------------------------------------------------------
(* The poetry example: a Markov chain over words *)

\* the pieces a source splits into at whitespace and brackets: words, the
\* empty piece between two separators, and a piece without a letter
PoetryWords == {"a", "b"}
PoetryPieces == PoetryWords \cup {"", "1"}

\* word.chars().any(char::is_alphabetic)
IsWord(piece) == piece \in PoetryWords

\* a source, as the sequence of pieces split() yields for it: at least one
PoetrySources == UNION {[1..n -> PoetryPieces] : n \in 1..MaxWords}

\* links.contains_key(key) and the position of the key
HasLink(links, key) == \E i \in 1..Len(links) : links[i].key = key
LinkIndex(links, key) == CHOOSE i \in 1..Len(links) : links[i].key = key

\* links.entry(previous).or_insert_with(Vec::new).push(word)
PushLink(links, previous, word) ==
    IF HasLink(links, previous)
    THEN [links EXCEPT ![LinkIndex(links, previous)].words = Append(@, word)]
    ELSE Append(links, [key |-> previous, words |-> <<word>>])

RECURSIVE AddWords(_, _, _, _)
\* the for loop of add_source_material from the i-th piece on
AddWords(links, previous, pieces, i) ==
    IF i > Len(pieces) THEN links
    ELSE IF IsWord(pieces[i])
    THEN AddWords(PushLink(links, previous, pieces[i]), pieces[i], pieces, i + 1)
    ELSE AddWords(links, previous, pieces, i + 1)

\* Poetry::add_source_material: the links afterwards
add_source_material(links, pieces) ==
    IF Len(pieces) = 0 THEN links
    ELSE AddWords(links, pieces[1], pieces, 2)

\* the successors recorded for Some(word), none for None or an unknown word
Successors(links, previous) ==
    IF Len(previous) = 0 \/ ~HasLink(links, previous[1]) THEN {}
    ELSE LET words == links[LinkIndex(links, previous[1])].words
         IN  {words[i] : i \in 1..Len(words)}

\* next_word that returns None when there are no links to start from
next_word_NoneWhenEmpty(links, previous) ==
    IF Successors(links, previous) # {}
    THEN {[panicked |-> FALSE, result |-> <<w>>] : w \in Successors(links, previous)}
    ELSE IF Len(links) = 0
    THEN {[panicked |-> FALSE, result |-> <<>>]}
    ELSE {[panicked |-> FALSE, result |-> <<links[start].key>>] : start \in 1..Len(links)}

\* Poetry::next_word: the outcomes the random choices allow.  With a linked
\* previous word, any of its successors; otherwise the key at an index drawn
\* by gen_range(0..links.len()), which panics on the empty range.
next_word(links, previous) ==
    IF Successors(links, previous) # {}
    THEN {[panicked |-> FALSE, result |-> <<w>>] : w \in Successors(links, previous)}
    ELSE IF Len(links) = 0
    THEN {[panicked |-> TRUE, result |-> <<>>]}
    ELSE {[panicked |-> FALSE, result |-> <<links[start].key>>] : start \in 1..Len(links)}

NoPoetryCall == [op |-> "none", before |-> <<>>, result |-> <<>>, panicked |-> FALSE]

\* Poetry::default()
PoetryInit ==
    /\ poetry_links = <<>>
    /\ poetry_previous = <<>>
    /\ poetry_added = 0
    /\ poetry_last = NoPoetryCall

PoetryIdle == PoetryInit

AddSourceMaterialCall ==
    /\ ~poetry_last.panicked
    /\ poetry_added < MaxSources
    /\ \E source \in PoetrySources :
          poetry_links' = add_source_material(poetry_links, source)
    /\ poetry_added' = poetry_added + 1
    /\ poetry_last' = [op |-> "add_source_material", before |-> poetry_previous,
                       result |-> <<>>, panicked |-> FALSE]
    /\ UNCHANGED poetry_previous
    /\ UNCHANGED <<str_vars, lib_vars, map_vars, obj_vars, nxt_vars>>

\* a panic leaves self.previous as it was
NextWordCall ==
    /\ ~poetry_last.panicked
    /\ \E r \in next_word(poetry_links, poetry_previous) :
          /\ poetry_previous' = IF r.panicked THEN poetry_previous ELSE r.result
          /\ poetry_last' = [op |-> "next_word", before |-> poetry_previous,
                             result |-> r.result, panicked |-> r.panicked]
    /\ UNCHANGED <<poetry_links, poetry_added>>
    /\ UNCHANGED <<str_vars, lib_vars, map_vars, obj_vars, nxt_vars>>

PoetryStep ==
    \/ AddSourceMaterialCall
    \/ NextWordCall

----------------------------------------------------------------------------
(* Specifications *)

\* the string iterators
InitStr == StrInit /\ LibIdle /\ MapIdle /\ ObjIdle /\ NextIdle /\ PoetryIdle
SpecStr == InitStr /\ [][StrStep]_vars

\* the iterators copies are made of: every Bytes, Lines and Split iterator,
\* and SplitWith with the predicates that return false for "a"
CopyIterators ==
    {it \in StrIterators : it.kind = "SplitWith" => it.predicate[CharA] = "false"}

CopyInit ==
    /\ str_iter \in CopyIterators
    /\ str_output = NotCalled
    /\ str_calls = <<>>
    /\ str_yielded = <<>>
    /\ str_copy = NoCopy(str_iter)

\* the string iterators with make_copy
CopyStep ==
    \/ BytesNextCall
    \/ LinesNextCall
    \/ SplitNextCall
    \/ SplitWithNextCall
    \/ MakeCopyCall
    \/ CopyNextCall

InitCopy == CopyInit /\ LibIdle /\ MapIdle /\ ObjIdle /\ NextIdle /\ PoetryIdle
SpecCopy == InitCopy /\ [][CopyStep]_vars

\* iterator.next on one value
InitNext == NextInit /\ StrIdle /\ LibIdle /\ MapIdle /\ ObjIdle /\ PoetryIdle
SpecNext == InitNext /\ [][NextStep]_vars

\* the poetry example
InitPoetry == PoetryInit /\ StrIdle /\ LibIdle /\ MapIdle /\ ObjIdle /\ NextIdle
SpecPoetry == InitPoetry /\ [][PoetryStep]_vars

\* the functions of core.iterator
InitLib == LibInit /\ StrIdle /\ MapIdle /\ ObjIdle /\ NextIdle /\ PoetryIdle
SpecLib == InitLib /\ [][LibStep]_vars

\* an iterator handle backed by a test object
InitObj == ObjInit /\ StrIdle /\ LibIdle /\ MapIdle /\ NextIdle /\ PoetryIdle
SpecObj == InitObj /\ [][ObjStep]_vars

\* the scripts over TestObject instances
InitScript ==
    ScriptInit /\ obj_iter = TestIteratorNew(0) /\ obj_yielded = <<>>
    /\ StrIdle /\ LibIdle /\ MapIdle /\ NextIdle /\ PoetryIdle
SpecScript == InitScript /\ [][ScriptStep]_vars

\* the functions of core.map
InitMap == MapIdle /\ StrIdle /\ LibIdle /\ ObjIdle /\ NextIdle /\ PoetryIdle
SpecMap == InitMap /\ [][MapStep]_vars

----------------------------------------------------------------------------
(* Claims about the string iterators *)

RECURSIVE Remaining(_, _)
\* the number of Some(..) outputs further next() calls on it will return,
\* counted up to fuel
Remaining(it, fuel) ==
    IF fuel = 0 THEN 0
    ELSE LET r == StrNext(it)
         IN  IF r.output = None THEN 0 ELSE 1 + Remaining(r.iter, fuel - 1)

\* C7: in every reachable state of Bytes, Lines, Split and SplitWith,
\* size_hint() does not underflow and returns a lower bound that is at most
\* the number of items further next() calls will yield.
C7_SizeHintLowerBoundSound ==
    \A h \in SizeHint(str_iter) :
        /\ ~h.panic
        /\ UsizeLeq(h.lower, Remaining(str_iter, MaxYielded + 1))

\* the values of a sequence of Value outputs
ValuesOf(outs) == [i \in 1..Len(outs) |-> outs[i].value]

IsPrefix(s, t) == Len(s) <= Len(t) /\ s = SubSeq(t, 1, Len(s))

\* cur without one trailing CR
StripCR(cur) ==
    IF cur # <<>> /\ cur[Len(cur)] = "CR" THEN SubSeq(cur, 1, Len(cur) - 1) ELSE cur

RECURSIVE LinesOf(_, _)
\* the lines of s, read byte by byte; cur is the line read so far
LinesOf(s, cur) ==
    IF s = <<>> THEN (IF cur = <<>> THEN <<>> ELSE <<cur>>)
    ELSE IF Head(s) = "LF" THEN <<StripCR(cur)>> \o LinesOf(Tail(s), <<>>)
    ELSE LinesOf(Tail(s), Append(cur, Head(s)))

\* C8: Lines yields, in order, the substrings delimited by "\n" or "\r\n",
\* without the terminator, with an empty string for an empty line and
\* nothing for an empty remainder after the last terminator; "a\r\nb\n\nc"
\* yields "a", "b", "", "c".
C8_LinesYieldsLines ==
    str_iter.kind = "Lines" =>
        /\ \A i \in 1..Len(str_yielded) : str_yielded[i].type = "Value"
        /\ IsPrefix(ValuesOf(str_yielded), LinesOf(str_iter.input, <<>>))
        /\ str_output = None =>
            /\ ValuesOf(str_yielded) = LinesOf(str_iter.input, <<>>)
            /\ \A i \in 1..Len(str_yielded) :
                  \A j \in 1..Len(str_yielded[i].value) :
                      str_yielded[i].value[j] # "LF"
            /\ str_iter.input = LinesExample =>
                  ValuesOf(str_yielded) = <<<<"a">>, <<"b">>, <<>>, <<"c">>>>
            /\ str_iter.input = <<"a", "LF">> => ValuesOf(str_yielded) = <<<<"a">>>>
            /\ str_iter.input = <<>> => str_yielded = <<>>

\* Lines has been drained on an input with a "\r\n", an empty line and a
\* trailing terminator
C8_Witness ==
    /\ str_iter.kind = "Lines"
    /\ str_output = None
    /\ str_iter.input = <<"CR", "LF", "LF">>
    /\ ValuesOf(str_yielded) = <<<<>>, <<>>>>

RECURSIVE CountOccurrences(_, _, _)
\* the number of leftmost non-overlapping occurrences of pat in s from offset i
CountOccurrences(s, pat, i) ==
    IF i + Len(pat) > Len(s) THEN 0
    ELSE IF OccursAt(s, pat, i) THEN 1 + CountOccurrences(s, pat, i + Len(pat))
    ELSE CountOccurrences(s, pat, i + 1)

RECURSIVE Join(_, _)
\* the pieces joined with sep
Join(pieces, sep) ==
    IF pieces = <<>> THEN <<>>
    ELSE IF Len(pieces) = 1 THEN pieces[1]
    ELSE pieces[1] \o sep \o Join(Tail(pieces), sep)

\* C9: for a non-empty pattern with k leftmost non-overlapping occurrences in
\* the input, Split yields k+1 pieces, none of which holds the pattern, and
\* joining them with the pattern gives the input back; "a,,b" split on ","
\* yields "a", "", "b".
C9_SplitPieces ==
    (str_iter.kind = "Split" /\ str_iter.pattern # <<>> /\ str_output = None) =>
        LET pieces == ValuesOf(str_yielded)
        IN  /\ \A i \in 1..Len(str_yielded) : str_yielded[i].type = "Value"
            /\ Len(pieces) = CountOccurrences(str_iter.input, str_iter.pattern, 0) + 1
            /\ \A i \in 1..Len(pieces) : Find(pieces[i], str_iter.pattern) = -1
            /\ Join(pieces, str_iter.pattern) = str_iter.input
            /\ (str_iter.input = SplitExample /\ str_iter.pattern = <<",">>) =>
                  pieces = <<<<"a">>, <<>>, <<"b">>>>

\* Split has been drained on an input that ends with the pattern and holds
\* overlapping candidates
C9_Witness ==
    /\ str_iter.kind = "Split"
    /\ str_output = None
    /\ str_iter.input = <<",", ",", ",">>
    /\ str_iter.pattern = <<",", ",">>
    /\ ValuesOf(str_yielded) = <<<<>>, <<",">>>>

RECURSIVE GraphemesFrom(_, _)
\* the grapheme clusters of s[pos..], each with its offset and length
GraphemesFrom(s, pos) ==
    IF pos >= Len(s) THEN <<>>
    ELSE <<[start |-> pos, len |-> GraphemeLen(s, pos)]>>
         \o GraphemesFrom(s, pos + GraphemeLen(s, pos))

\* what one next() call of a SplitWith with cursor below the input's end must
\* do, from the iterator it before the call
C10_Step(it, out, calls, start_after) ==
    LET gs == GraphemesFrom(it.input, it.start)
        text(j) == Slice(it.input, gs[j].start, gs[j].start + gs[j].len)
        stops == {j \in 1..Len(gs) : it.predicate[text(j)] # "false"}
        first == IF stops = {} THEN 0
                 ELSE CHOOSE j \in stops : \A k \in stops : j <= k
        n == IF first = 0 THEN Len(gs) ELSE first
    IN  /\ calls = [j \in 1..n |-> text(j)]
        /\ first = 0 => out = Value(Slice(it.input, it.start, Len(it.input)))
        /\ (first # 0 /\ it.predicate[text(first)] = "true") =>
              /\ out = Value(Slice(it.input, it.start, gs[first].start))
              /\ start_after = gs[first].start + gs[first].len
        /\ (first # 0 /\ it.predicate[text(first)] \in {"non_bool", "raise"}) =>
              out.type = "Error"

\* C10: a SplitWith.next() call passes the graphemes from the cursor to the
\* predicate in order up to the first that does not return false; on true it
\* yields the text before that grapheme and moves the cursor past it; with no
\* match it yields the remainder; on a non-Bool or a raise it returns an Error
\* output and calls the predicate on no later grapheme.
C10_SplitWithStep ==
    [][(str_iter.kind = "SplitWith" /\ str_iter.start < Len(str_iter.input)) =>
          C10_Step(str_iter, str_output', str_calls', str_iter'.start)]_vars

\* a SplitWith call has stopped at a matching two-byte grapheme after one that
\* did not match, and a call has returned an Error
C10_Witness ==
    /\ str_iter.kind = "SplitWith"
    /\ str_iter.input = <<"a", "C3", "A9", ",">>
    /\ str_calls = <<<<",">>>>
    /\ str_iter.start = 3
    /\ Len(str_yielded) = 2
    /\ str_yielded[1] = Value(<<"a">>)
    /\ str_yielded[2].type = "Error"

RECURSIVE After(_, _)
\* the iterator it after n next() calls that returned Some(..)
After(it, n) ==
    IF n = 0 THEN it
    ELSE LET r == StrNext(it)
         IN  IF r.output = None THEN it ELSE After(r.iter, n - 1)

RECURSIVE Yields(_, _)
\* the first n outputs the iterator it yields when nothing else is going on
Yields(it, n) ==
    IF n = 0 THEN <<>>
    ELSE LET r == StrNext(it)
         IN  IF r.output = None THEN <<>>
             ELSE <<r.output>> \o Yields(r.iter, n - 1)

\* C20: a copy made by make_copy is an independent cursor: whatever the order
\* of the next() calls on the original and on the copy, each of the two
\* yields the sequence the original would have yielded alone from the state
\* it was copied in, and returns None where that sequence ends.
C20_CopyIsIndependent ==
    str_copy.made =>
        LET n == Len(str_copy.yielded)
            m == Len(str_yielded) - str_copy.at
        IN  /\ str_copy.yielded = Yields(str_copy.from, n)
            /\ str_copy.iter = After(str_copy.from, n)
            /\ str_copy.output = None => StrNext(After(str_copy.from, n)).output = None
            /\ SubSeq(str_yielded, str_copy.at + 1, Len(str_yielded)) = Yields(str_copy.from, m)
            /\ str_iter = After(str_copy.from, m)
            /\ (m > 0 /\ str_output = None) => StrNext(After(str_copy.from, m)).output = None

\* a SplitWith iterator copied after its first piece; the copy has yielded two
\* pieces and the original one more since
C20_Witness ==
    /\ str_copy.made
    /\ str_iter.kind = "SplitWith"
    /\ str_copy.at = 1
    /\ Len(str_copy.yielded) = 2
    /\ Len(str_yielded) = 2
    /\ str_copy.yielded[1].type = "Value"
    /\ str_copy.yielded[2].type = "Value"

\* C32: a Split iterator terminates for every input and every pattern, the
\* empty pattern included: every next() call that yields an item leaves the
\* cursor strictly further on than it found it.
C32_SplitAdvances ==
    [][(str_iter.kind = "Split" /\ str_yielded' # str_yielded) =>
            str_iter'.start > str_iter.start]_vars

\* the predicate |grapheme| grapheme == p
EqualsPattern(p) == [g \in SplitWithGraphemes |-> IF g = p THEN "true" ELSE "false"]

\* C33: for every input and every single-grapheme pattern p, SplitWith with
\* the predicate 'grapheme equals p' yields the pieces Split with the pattern
\* p yields: what it has yielded so far is the beginning of Split's sequence,
\* and all of it once SplitWith has returned None.
C33_SplitWithAgreesWithSplit ==
    \A p \in SplitWithGraphemes :
        (str_iter.kind = "SplitWith" /\ str_iter.predicate = EqualsPattern(p)) =>
            LET pieces == Yields(SplitNew(str_iter.input, p), MaxYielded)
            IN  /\ IsPrefix(str_yielded, pieces)
                /\ str_output = None => str_yielded = pieces

\* C35: a SplitWith next() call that returns an Error output leaves the cursor
\* where it was, and the next() call after it passes the same graphemes to the
\* predicate and returns the same Error: the iterator does not report
\* exhaustion after an error.
C35_ErrorLeavesCursor ==
    [][str_iter.kind = "SplitWith" =>
            /\ str_output'.type = "Error" => str_iter' = str_iter
            /\ str_output.type = "Error" =>
                    /\ str_output' = str_output
                    /\ str_calls' = str_calls]_vars

\* a SplitWith iterator that has yielded a piece and then the same Error
\* twice, with the cursor still behind the piece
C35_Witness ==
    /\ str_iter.kind = "SplitWith"
    /\ Len(str_yielded) = 3
    /\ str_yielded[1].type = "Value"
    /\ str_yielded[2].type = "Error"
    /\ str_yielded[3] = str_yielded[2]
    /\ str_output = str_yielded[3]
    /\ str_iter.start > 0
    /\ str_iter.start < Len(str_iter.input)

\* u >= k for a usize u and a number k far below 2^63
UsizeGeq(u, k) == u.wrapped \/ u.n >= k

\* C36: in every state a string iterator reaches before it has returned None,
\* the upper bound size_hint() returns is at least the number of items
\* further next() calls will yield, and for Bytes both bounds are that number.
C36_SizeHintUpperBoundSound ==
    str_output # None =>
        \A h \in SizeHint(str_iter) :
            ~h.panic =>
                LET remaining == Remaining(str_iter, MaxYielded + 1)
                IN  /\ UsizeGeq(h.upper, remaining)
                    /\ str_iter.kind = "Bytes" =>
                            /\ h.lower = Usize(remaining)
                            /\ h.upper = Usize(remaining)

----------------------------------------------------------------------------
(* Claims about core.iterator *)

\* the call made was fn on a plain source
CalledOnSource(fns) ==
    /\ lib_call.fn \in fns
    /\ lib_call.iter.kind = "source"

\* the outputs the producer of the call is scripted with
CallSrc == Upstream(lib_call.iter).src

\* the values the function sees for the outputs of a source without errors
SeenValues(src) == [i \in 1..Len(src) |-> collect_pair(src[i]).value]

\* a is strictly less than b
StrictlyLess(a, b) == Less(a, b).ok /\ Less(a, b).value.b

\* the key a value is compared by
KeyOf(value) ==
    IF Len(lib_call.fs) = 0 THEN value
    ELSE RunFunction(lib_call.fs[1], Single(value)).value

\* the positions of the least and of the greatest elements of values
LeastPositions(values) ==
    {i \in 1..Len(values) :
        \A j \in 1..Len(values) : ~StrictlyLess(KeyOf(values[j]), KeyOf(values[i]))}
GreatestPositions(values) ==
    {i \in 1..Len(values) :
        \A j \in 1..Len(values) : ~StrictlyLess(KeyOf(values[i]), KeyOf(values[j]))}

FirstOf(positions) == CHOOSE i \in positions : \A j \in positions : i <= j
LastOf(positions) == CHOOSE i \in positions : \A j \in positions : j <= i

\* C1: when min, max or min_max (with or without a key function) succeeds on
\* a non-empty sequence, the minimum returned is the first-seen of the
\* elements no other element is less than, and the maximum returned is the
\* last-seen of the elements that are less than no other element.
C1_TiesFirstMinLastMax ==
    (/\ CalledOnSource({"min", "max", "min_max"})
     /\ lib_outcome.result.ok
     /\ CallSrc # <<>>) =>
        LET values == SeenValues(CallSrc)
            first_least == values[FirstOf(LeastPositions(values))]
            last_greatest == values[LastOf(GreatestPositions(values))]
        IN  CASE lib_call.fn = "min" -> lib_outcome.result.value = first_least
              [] lib_call.fn = "max" -> lib_outcome.result.value = last_greatest
              [] lib_call.fn = "min_max" ->
                    lib_outcome.result.value = Tuple(<<first_least, last_greatest>>)

\* the position of the first Error output of src, or 0
FirstError(src) ==
    IF \E i \in 1..Len(src) : src[i].type = "Error"
    THEN CHOOSE i \in 1..Len(src) :
            /\ src[i].type = "Error"
            /\ \A j \in 1..(i - 1) : src[j].type # "Error"
    ELSE 0

RECURSIVE FoldLeft(_, _, _)
\* f(...f(f(initial, x1), x2)..., xn), or the first error f raises on the way
FoldLeft(f, initial, xs) ==
    IF xs = <<>> THEN Ok(initial)
    ELSE LET before == FoldLeft(f, initial, SubSeq(xs, 1, Len(xs) - 1))
         IN  IF ~before.ok THEN before
             ELSE RunFunction(f, <<before.value, xs[Len(xs)]>>)

\* the length of the shortest prefix of xs on which the fold with f fails, or 0
FirstFailure(f, initial, xs) ==
    IF \E n \in 1..Len(xs) : ~FoldLeft(f, initial, SubSeq(xs, 1, n)).ok
    THEN CHOOSE n \in 1..Len(xs) :
            /\ ~FoldLeft(f, initial, SubSeq(xs, 1, n)).ok
            /\ \A m \in 1..(n - 1) : FoldLeft(f, initial, SubSeq(xs, 1, m)).ok
    ELSE 0

\* C4: fold returns f(...f(f(initial, x1), x2)..., xn), calling f once per
\* element in order; at the first Error output or the first error of f it
\* returns that error, with no further call of f and no further pull.
C4_FoldIsLeftFold ==
    CalledOnSource({"fold"}) =>
        LET initial == lib_call.args[1]
            f == lib_call.fs[1]
            e == FirstError(CallSrc)
            \* the elements before the first Error output
            good == IF e = 0 THEN CallSrc ELSE SubSeq(CallSrc, 1, e - 1)
            xs == SeenValues(good)
            failure == FirstFailure(f, initial, xs)
            \* the elements f is called on
            n == IF failure = 0 THEN Len(xs) ELSE failure
            pulls == Upstream(lib_outcome.iter).pulls
        IN  /\ Len(lib_outcome.calls) = n
            /\ \A i \in 1..n :
                  /\ lib_outcome.calls[i].f = f
                  /\ lib_outcome.calls[i].args =
                        <<FoldLeft(f, initial, SubSeq(xs, 1, i - 1)).value, xs[i]>>
            /\ failure # 0 =>
                  /\ lib_outcome.result = FoldLeft(f, initial, SubSeq(xs, 1, failure))
                  /\ pulls = failure
            /\ (failure = 0 /\ e # 0) =>
                  /\ lib_outcome.result = Err(CallSrc[e].error)
                  /\ pulls = e
            /\ (failure = 0 /\ e = 0) =>
                  /\ lib_outcome.result = FoldLeft(f, initial, xs)
                  /\ pulls = Len(CallSrc) + 1

\* fold has built a nested tuple from three elements, and fold has stopped at
\* an error of f with an element left unpulled
C4_Witness ==
    /\ lib_call.fn = "fold"
    /\ \/ /\ lib_call.fs[1] = "pair"
          /\ Len(CallSrc) = 3
          /\ lib_outcome.result.ok
          /\ Len(lib_outcome.calls) = 3
       \/ /\ lib_call.fs[1] = "pair_throws_on_2"
          /\ Len(CallSrc) = 3
          /\ lib_outcome.result = Err(<<"boom">>)
          /\ Upstream(lib_outcome.iter).pulls = 2

\* the call made was fn on a source behind a keep, each or take-while adaptor
CalledOnAdaptor(fns) ==
    /\ lib_call.fn \in fns
    /\ lib_call.iter.kind \in {"keep", "each", "take_while"}

\* C5: when the callable of a keep, each or take-while adaptor raises on an
\* element, the consuming operation returns that same error and no result;
\* the failing call is the last call of the callable and the failing element
\* the last one pulled from upstream.
C5_AdaptorErrorStopsConsumer ==
    CalledOnAdaptor({"to_list", "to_tuple", "count"}) =>
        \A i \in 1..Len(lib_outcome.calls) :
            LET c == lib_outcome.calls[i]
                r == RunFunction(c.f, c.args)
                up == Upstream(lib_outcome.iter)
            IN  ~r.ok =>
                  /\ i = Len(lib_outcome.calls)
                  /\ lib_outcome.result = Err(r.error)
                  /\ up.pulls = up.pos
                  /\ up.pos >= 1
                  /\ ArgsOf(up.src[up.pos]) = c.args

\* to_list over each adaptor has failed on the second of three elements after
\* the callable accepted the first
C5_Witness ==
    /\ CalledOnAdaptor({"to_list"})
    /\ Len(CallSrc) = 3
    /\ Len(lib_outcome.calls) = 2
    /\ lib_outcome.result = Err(<<"boom">>)
    /\ Upstream(lib_outcome.iter).pulls = 2

DrainingFunctions ==
    {"all", "any", "consume", "count", "find", "fold", "last", "min", "max",
     "min_max", "position", "skip", "sum", "product", "to_list", "to_map",
     "to_string", "to_tuple", "extend"}

\* C6: once the upstream handle has yielded an Error, a draining function
\* returns that error and makes no further next() call on the handle.
C6_NoPullAfterError ==
    (CalledOnSource(DrainingFunctions) /\ FirstError(CallSrc) # 0) =>
        LET e == FirstError(CallSrc)
            pulls == lib_outcome.iter.pulls
        IN  /\ pulls <= e
            /\ pulls = e => lib_outcome.result = Err(CallSrc[e].error)

\* a draining function has met an Error output with an output left behind it
C6_Witness ==
    /\ CalledOnSource({"skip", "extend", "count"})
    /\ Len(CallSrc) = 3
    /\ FirstError(CallSrc) = 2
    /\ lib_outcome.iter.pulls = 2
    /\ lib_outcome.result = Err(CallSrc[2].error)

\* the sequence 3, 1, 2
ThreeOneTwo == <<Value(Number(3)), Value(Number(1)), Value(Number(2))>>

\* C11: min, max and min_max, with or without a key function, return Null on
\* an iterable that yields nothing, and call neither the key function nor the
\* comparison operator; on the sequence 3, 1, 2 they return 1, 3 and (1, 3).
C11_MinMaxEmptyAndExample ==
    CalledOnSource({"min", "max", "min_max"}) =>
        /\ CallSrc = <<>> =>
              /\ lib_outcome.result = Ok(Null)
              /\ Len(lib_outcome.calls) = 0
        /\ (CallSrc = ThreeOneTwo /\ lib_call.fs \in {<<>>, <<"identity">>}) =>
              lib_outcome.result =
                  CASE lib_call.fn = "min" -> Ok(Number(1))
                    [] lib_call.fn = "max" -> Ok(Number(3))
                    [] lib_call.fn = "min_max" -> Ok(Tuple(<<Number(1), Number(3)>>))

\* max without a key function has returned 3 for the sequence 3, 1, 2
C11_Witness ==
    /\ CalledOnSource({"max"})
    /\ Len(lib_call.fs) = 0
    /\ CallSrc = ThreeOneTwo
    /\ lib_outcome.result = Ok(Number(3))
    /\ Len(lib_outcome.calls) = 2

RECURSIVE OpFoldLeft(_, _, _)
\* ((initial op x1) op x2) ... op xn, or the first error op raises on the way
OpFoldLeft(op, initial, xs) ==
    IF Len(xs) = 0 THEN Ok(initial)
    ELSE LET before == OpFoldLeft(op, initial, SubSeq(xs, 1, Len(xs) - 1))
         IN  IF ~before.ok THEN before
             ELSE RunBinaryOp(op, before.value, xs[Len(xs)])

\* C12: sum and product return ((i op x1) op x2) ... op xn for the add and the
\* multiply operator, where i is the initial value given, or 0 for sum and 1
\* for product; an empty iterable gives i itself, an operator error ends the
\* call with that error; sum([]) = 0, sum([1, 2, 3]) = 6 and
\* product([2, 3, 4]) = 24.
C12_SumProductAreOperatorFolds ==
    CalledOnSource({"sum", "product"}) =>
        LET op == IF lib_call.fn = "sum" THEN "Add" ELSE "Multiply"
            initial == IF Len(lib_call.args) > 0 THEN lib_call.args[1]
                       ELSE IF lib_call.fn = "sum" THEN Number(0) ELSE Number(1)
            e == FirstError(CallSrc)
            good == IF e = 0 THEN CallSrc ELSE SubSeq(CallSrc, 1, e - 1)
            folded == OpFoldLeft(op, initial, SeenValues(good))
        IN  /\ lib_outcome.result =
                  IF ~folded.ok THEN folded
                  ELSE IF e # 0 THEN Err(CallSrc[e].error)
                  ELSE folded
            /\ \A i \in 1..Len(lib_outcome.calls) :
                  /\ lib_outcome.calls[i].f = op
                  /\ OpFoldLeft(op, initial, SeenValues(SubSeq(good, 1, i - 1))).ok
            /\ (Len(CallSrc) = 0 /\ Len(lib_call.args) = 0) =>
                  lib_outcome.result = Ok(IF lib_call.fn = "sum" THEN Number(0) ELSE Number(1))
            /\ Len(CallSrc) = 0 => lib_outcome.result = Ok(initial)
            /\ (lib_call.fn = "sum" /\ Len(lib_call.args) = 0
                /\ CallSrc = <<Value(Number(1)), Value(Number(2)), Value(Number(3))>>) =>
                  lib_outcome.result = Ok(Number(6))
            /\ (lib_call.fn = "product" /\ Len(lib_call.args) = 0
                /\ CallSrc = TwoThreeFour) =>
                  lib_outcome.result = Ok(Number(24))

\* product has returned 24 for 2, 3, 4
C12_Witness ==
    /\ CalledOnSource({"product"})
    /\ Len(lib_call.args) = 0
    /\ CallSrc = TwoThreeFour
    /\ lib_outcome.result = Ok(Number(24))
    /\ Len(lib_outcome.calls) = 3

\* what the predicate of the call returns for the i-th output of the producer
PredicateResult(i) == RunFunction(lib_call.fs[1], ArgsOf(CallSrc[i]))

\* the i-th output is an element for which the predicate returns a Bool that
\* lets the loop go on
GoesOn(i) ==
    /\ CallSrc[i].type # "Error"
    /\ PredicateResult(i).ok
    /\ PredicateResult(i).value.t = "Bool"
    /\ PredicateResult(i).value.b = (lib_call.fn = "all")

\* the i-th output is an element for which the predicate returns a non-Bool
NonBoolAt(i) ==
    /\ CallSrc[i].type # "Error"
    /\ PredicateResult(i).ok
    /\ PredicateResult(i).value.t # "Bool"

\* C13: in all, any, find and position, at the first element for which the
\* predicate returns a value that is not a Bool the call fails with a type
\* error naming that value; the predicate is not called again and no further
\* element is pulled.
C13_NonBoolPredicateIsTypeError ==
    CalledOnSource({"all", "any", "find", "position"}) =>
        \A k \in 1..Len(CallSrc) :
            (NonBoolAt(k) /\ \A j \in 1..(k - 1) : GoesOn(j)) =>
                /\ lib_outcome.result =
                      TypeError("a Bool to be returned from the predicate",
                                PredicateResult(k).value)
                /\ Len(lib_outcome.calls) = k
                /\ Upstream(lib_outcome.iter).pulls = k

\* any has failed with a type error at the second of three elements
C13_Witness ==
    /\ CalledOnSource({"any"})
    /\ Len(CallSrc) = 3
    /\ GoesOn(1)
    /\ NonBoolAt(2)
    /\ ~lib_outcome.result.ok
    /\ lib_outcome.result.error[1] = "type_error"
    /\ Len(lib_outcome.calls) = 2

\* the predicate of the call returns the Bool b for the i-th output
Answers(i, b) ==
    /\ CallSrc[i].type # "Error"
    /\ PredicateResult(i) = Ok(Bool(b))

\* the script function that returns `not f(x)`, for the functions that have one
Negated(f) ==
    CASE f = "always_true" -> "always_false"
      [] f = "always_false" -> "always_true"
      [] f = "equals_2" -> "not_2"
      [] f = "not_2" -> "equals_2"

\* C37: all returns true iff the predicate returns true for every element
\* (true on an empty iterable), any returns true iff it returns true for some
\* element (false on an empty iterable); all stops at the first false and any
\* at the first true, without a further predicate call or a further pull; and
\* any(xs, p) is not all(xs, not p) for a Bool-valued predicate p.
C37_AllAndAny ==
    CalledOnSource({"all", "any"}) =>
        LET stop == (lib_call.fn = "any")
            n == Len(CallSrc)
        IN  /\ (\A i \in 1..n : Answers(i, ~stop)) =>
                    /\ lib_outcome.result = Ok(Bool(~stop))
                    /\ Len(lib_outcome.calls) = n
                    /\ Upstream(lib_outcome.iter).pulls = n + 1
            /\ \A k \in 1..n :
                    (Answers(k, stop) /\ \A j \in 1..(k - 1) : Answers(j, ~stop)) =>
                        /\ lib_outcome.result = Ok(Bool(stop))
                        /\ lib_outcome.calls =
                              [i \in 1..k |-> Call(lib_call.fs[1], ArgsOf(CallSrc[i]))]
                        /\ Upstream(lib_outcome.iter).pulls = k
            /\ (/\ lib_call.fn = "any"
                /\ lib_call.fs[1] \in {"always_true", "always_false", "equals_2", "not_2"}
                /\ \A i \in 1..n : CallSrc[i].type # "Error") =>
                    LET negated == RunCall(LibCall("all", <<Negated(lib_call.fs[1])>>,
                                                   <<>>, lib_call.iter)).result
                    IN  /\ negated.ok
                        /\ lib_outcome.result = Ok(Bool(~negated.value.b))

\* any has returned true at the second of three elements, and all has
\* returned false there for the negated predicate
C37_Witness ==
    /\ CalledOnSource({"any"})
    /\ lib_call.fs = <<"equals_2">>
    /\ CallSrc = <<Value(Number(1)), Value(Number(2)), Value(Number(3))>>
    /\ lib_outcome.result = Ok(Bool(TRUE))
    /\ Len(lib_outcome.calls) = 2
    /\ Upstream(lib_outcome.iter).pulls = 2
    /\ RunCall(LibCall("all", <<"not_2">>, <<>>, lib_call.iter)).result = Ok(Bool(FALSE))

\* the entry an output stands for: a pair or a tuple of two elements is
\* key and value, any other value is a key with Null
EntryOf(output) ==
    IF output.type = "ValuePair" THEN <<output.first, output.second>>
    ELSE IF output.value.t = "Tuple" /\ Len(output.value.items) = 2
    THEN <<output.value.items[1], output.value.items[2]>>
    ELSE <<output.value, Null>>

\* the first and the last position of a key among key-value pairs
FirstOfKey(pairs, key) ==
    CHOOSE i \in 1..Len(pairs) :
        /\ KeyEq(pairs[i][1], key)
        /\ \A j \in 1..(i - 1) : ~KeyEq(pairs[j][1], key)
LastOfKey(pairs, key) ==
    CHOOSE i \in 1..Len(pairs) :
        /\ KeyEq(pairs[i][1], key)
        /\ \A j \in (i + 1)..Len(pairs) : ~KeyEq(pairs[j][1], key)

\* data holds one entry for each key among the pairs, in the order of the
\* keys' first positions, each with the value of its key's last position
IsMapOf(data, pairs) ==
    /\ \A i \in 1..Len(pairs) : ContainsKey(data, pairs[i][1])
    /\ \A p \in 1..Len(data) : \E i \in 1..Len(pairs) : KeyEq(pairs[i][1], data[p].key)
    /\ \A p \in 1..Len(data) :
          data[p].value = pairs[LastOfKey(pairs, data[p].key)][2]
    /\ \A p, q \in 1..Len(data) :
          p < q => FirstOfKey(pairs, data[p].key) < FirstOfKey(pairs, data[q].key)

\* C18: to_map and map.extend with an iterable turn each output into one
\* entry (a pair or a tuple of two elements is key and value, any other value
\* is a key with Null), inserted in iteration order so that a repeated key
\* keeps its first position and its last value; to_map equals extending an
\* empty map.
C18_ToMapEntries ==
    CalledOnSource({"to_map", "extend"}) =>
        LET e == FirstError(CallSrc)
            given == [i \in 1..Len(lib_call.map) |->
                         <<lib_call.map[i].key, lib_call.map[i].value>>]
            pairs == given \o [i \in 1..Len(CallSrc) |-> EntryOf(CallSrc[i])]
        IN  /\ e # 0 => lib_outcome.result = Err(CallSrc[e].error)
            /\ e = 0 =>
                  /\ lib_outcome.result.ok
                  /\ lib_outcome.result.value.t = "Map"
                  /\ IsMapOf(lib_outcome.result.value.data, pairs)
            /\ lib_call.fn = "to_map" =>
                  lib_outcome.result = RunCall(ExtendCall(<<>>, lib_call.iter)).result

\* to_map of a tuple of three elements, then 1 -> 2, then 1 -> 3: the tuple is
\* a key with Null and key 1 holds its last value
C18_Witness ==
    /\ CalledOnSource({"to_map"})
    /\ CallSrc = <<Value(Tuple(<<Number(1), Number(2), Number(3)>>)),
                   Value(Tuple(<<Number(1), Number(2)>>)),
                   Value(Tuple(<<Number(1), Number(3)>>))>>
    /\ lib_outcome.result =
          Ok(Map(<<Entry(Tuple(<<Number(1), Number(2), Number(3)>>), Null),
                   Entry(Number(1), Number(3))>>))

\* C19: for an iterable that yields no Error, to_list returns the list of the
\* yielded elements in order, a pair as a tuple of two elements; to_list of
\* that list returns an equal list and leaves the list as it was.
C19_ToListIdempotent ==
    CalledOnSource({"to_list"}) =>
        /\ FirstError(CallSrc) = 0 =>
              lib_outcome.result =
                  Ok(List([i \in 1..Len(CallSrc) |->
                              IF CallSrc[i].type = "ValuePair"
                              THEN Tuple(<<CallSrc[i].first, CallSrc[i].second>>)
                              ELSE CallSrc[i].value]))
        /\ Len(lib_call.args) = 1 =>
              /\ lib_outcome.result = Ok(lib_call.args[1])
              /\ MakeIterator(lib_call.args[1]).src = Upstream(lib_outcome.iter).src

\* to_list applied a second time, to the list of 2, (1, 2), 1.0
C19_Witness ==
    /\ CalledOnSource({"to_list"})
    /\ Len(lib_call.args) = 1
    /\ lib_outcome.result =
          Ok(List(<<Number(2), Tuple(<<Number(1), Number(2)>>), Float(1)>>))

\* C22: skip(n) is lazy: the call makes no next() call on the upstream
\* iterator and returns an iterator, so no upstream Error is seen at the time
\* of the call.
C22_SkipIsLazy ==
    CalledOnSource({"skip"}) =>
        /\ lib_outcome.iter.pulls = 0
        /\ lib_outcome.result.ok

\* the size argument of the call, when it has one
SizeArg == lib_call.args[1].n

\* the call has returned an error and has made no next() call on its handle
RejectedUnpulled ==
    /\ ~lib_outcome.result.ok
    /\ lib_outcome.iter = lib_call.iter
    /\ Upstream(lib_outcome.iter).pulls = 0

\* C23: a size argument out of its domain is rejected when the adaptor is
\* built, with no element pulled: take and skip with n < 0, step with n < 1,
\* chunks and windows with n = 0; chunks, windows, step and reversed return
\* an adaptor's construction failure with the function's name prefixed.
C23_BadSizeRejectedAtConstruction ==
    /\ (CalledOnSource({"take", "skip"}) /\ Len(lib_call.args) = 1 /\ SizeArg < 0) =>
          RejectedUnpulled
    /\ (CalledOnSource({"step"}) /\ SizeArg < 1) => RejectedUnpulled
    /\ (CalledOnSource({"chunks", "windows"}) /\ SizeArg = 0) =>
          /\ RejectedUnpulled
          /\ lib_outcome.result.error[1] = "iterator." \o lib_call.fn \o ": "
    /\ (CalledOnSource({"chunks", "windows", "step", "reversed"})
        /\ ~lib_outcome.result.ok /\ lib_outcome.result.error[1] # "type_error") =>
          /\ RejectedUnpulled
          /\ lib_outcome.result.error[1] = "iterator." \o lib_call.fn \o ": "

\* chunks(0) on a producer of three outputs has returned the prefixed error
C23_Witness ==
    /\ CalledOnSource({"chunks"})
    /\ SizeArg = 0
    /\ Len(CallSrc) = 3
    /\ lib_outcome.result = Err(<<"iterator.chunks: ", "chunk size must be at least 1">>)
    /\ lib_outcome.iter.pulls = 0

\* the call drains the chain of two sources that yield no Error
CalledOnChain(fns) ==
    /\ lib_call.fn \in fns
    /\ lib_call.iter.kind = "chain"
    /\ FirstError(lib_call.iter.a.src) = 0
    /\ FirstError(lib_call.iter.b.src) = 0

\* what count returns for the handle h
CountOf(h) == RunCall(LibCall("count", <<>>, <<>>, h)).result.value.n

\* C24: count(chain(a, b)) = count(a) + count(b) for a and b that yield no
\* Error: chain yields the outputs of a in order, then those of b, and count
\* counts each output once, a pair too.
C24_CountOfChain ==
    /\ CalledOnChain({"count"}) =>
          /\ lib_outcome.result =
                Ok(Number(CountOf(lib_call.iter.a) + CountOf(lib_call.iter.b)))
          /\ lib_outcome.result =
                Ok(Number(Len(lib_call.iter.a.src) + Len(lib_call.iter.b.src)))
    /\ CalledOnChain({"to_tuple"}) =>
          lib_outcome.result =
              Ok(Tuple(SeenValues(lib_call.iter.a.src) \o SeenValues(lib_call.iter.b.src)))

\* count of the chain of a pair and a value with one value has returned 3
C24_Witness ==
    /\ CalledOnChain({"count"})
    /\ lib_call.iter.a.src = <<ValuePair(Number(1), Number(2)), Value(Number(3))>>
    /\ Len(lib_call.iter.b.src) = 1
    /\ lib_outcome.result = Ok(Number(3))

\* to_list has drained chunks or windows over a source that yields no Error
CalledOnGroups(kind) ==
    /\ lib_call.fn = "to_list"
    /\ lib_call.iter.kind = kind
    /\ FirstError(lib_call.iter.inner.src) = 0

RECURSIVE Concat(_)
\* the items of the groups one after the other
Concat(groups) ==
    IF Len(groups) = 0 THEN <<>> ELSE Head(groups).items \o Concat(Tail(groups))

\* C25: for a sequence of length L and n >= 1, windows yields max(0, L - n + 1)
\* overlapping groups of exactly n, and chunks yields ceil(L / n) groups of n
\* except possibly the last, whose concatenation is the sequence.
C25_WindowsAndChunks ==
    /\ CalledOnGroups("windows") =>
          LET seq == SeenValues(lib_call.iter.inner.src)
              n == lib_call.iter.size
              groups == lib_outcome.result.value.items
          IN  /\ lib_outcome.result.ok
              /\ Len(groups) = IF Len(seq) - n + 1 > 0 THEN Len(seq) - n + 1 ELSE 0
              /\ \A i \in 1..Len(groups) : groups[i] = Tuple(SubSeq(seq, i, i + n - 1))
    /\ CalledOnGroups("chunks") =>
          LET seq == SeenValues(lib_call.iter.inner.src)
              n == lib_call.iter.size
              groups == lib_outcome.result.value.items
          IN  /\ lib_outcome.result.ok
              /\ Len(groups) = (Len(seq) + n - 1) \div n
              /\ \A i \in 1..Len(groups) :
                    /\ groups[i].t = "Tuple"
                    /\ Len(groups[i].items) >= 1
                    /\ i < Len(groups) => Len(groups[i].items) = n
                    /\ Len(groups[i].items) <= n
              /\ Concat(groups) = seq

\* windows of 2 over three outputs are two groups; chunks of 2 are a group of
\* two and a group of one
C25_Witness ==
    /\ CalledOnGroups("windows")
    /\ lib_call.iter.size = 2
    /\ Len(lib_call.iter.inner.src) = 3
    /\ Len(lib_outcome.result.value.items) = 2

C25_WitnessChunks ==
    /\ CalledOnGroups("chunks")
    /\ lib_call.iter.size = 2
    /\ Len(lib_call.iter.inner.src) = 3
    /\ Len(lib_outcome.result.value.items) = 2
    /\ Len(lib_outcome.result.value.items[2].items) = 1

\* to_tuple has drained object.skip(3).reversed().take(m)
CalledOnBackward ==
    /\ lib_call.fn = "to_tuple"
    /\ lib_call.iter.kind = "take"
    /\ lib_call.iter.inner.kind = "reversed"

CollectingFunctions ==
    {"find", "fold", "last", "min", "max", "min_max", "sum", "product",
     "to_list", "to_string", "to_tuple"}

\* the outputs the handle of the call was made to give, where it is a source
OutputsOfCall == IF lib_call.iter.kind = "source" THEN lib_call.iter.src ELSE <<>>

\* C29: collect_pair maps ValuePair(a, b) to Value(Tuple[a, b]) and leaves
\* Value and Error outputs as they are, so the unreachable!() arms of find,
\* fold, last, min, max, min_max, sum, product, to_list, to_string and
\* to_tuple are never reached.
C29_CollectPair ==
    /\ \A i \in 1..Len(OutputsOfCall) :
          LET output == OutputsOfCall[i]
          IN  collect_pair(output) =
                 IF output.type = "ValuePair"
                 THEN Value(Tuple(<<output.first, output.second>>))
                 ELSE output
    /\ lib_call.fn \in CollectingFunctions => lib_outcome.result # Panic

\* to_tuple has drained a source that gives a pair first
C29_Witness ==
    /\ lib_call.fn = "to_tuple"
    /\ Len(OutputsOfCall) >= 1
    /\ OutputsOfCall[1].type = "ValuePair"
    /\ lib_outcome.result.ok
    /\ lib_outcome.result.value.items[1].t = "Tuple"

\* C38: iterator.next on an Iterator value advances that shared iterator: the
\* calls return its successive elements and then Null on every call after it
\* is exhausted.  On any other iterable each call builds a fresh iterator:
\* every call returns the first element and the iterable is as it was made.
C38_NextAdvancesOnlyIterators ==
    nxt_iterable # Null =>
        IF nxt_iterable.t = "Iterator"
        THEN LET src == nxt_iterable.iter.src
             IN  \A i \in 1..Len(nxt_results) :
                    nxt_results[i] = IF i <= Len(src) THEN iter_output_to_result(src[i])
                                     ELSE Ok(Null)
        ELSE /\ nxt_value = nxt_iterable
             /\ \A i \in 1..Len(nxt_results) :
                    nxt_results[i] = IF Len(nxt_iterable.items) > 0
                                     THEN Ok(nxt_iterable.items[1])
                                     ELSE Ok(Null)

\* four calls on an Iterator over two elements have returned the two elements
\* and Null twice
C38_Witness ==
    /\ nxt_iterable = Iterator(SourceIter(<<Value(Number(1)), Value(Number(2))>>))
    /\ nxt_results = <<Ok(Number(1)), Ok(Number(2)), Ok(Null), Ok(Null)>>
    /\ nxt_value.iter.pos = 2

\* three calls on the list [2, 3] have returned 2 each
C38_WitnessList ==
    /\ nxt_iterable = List(<<Number(2), Number(3)>>)
    /\ nxt_results = <<Ok(Number(2)), Ok(Number(2)), Ok(Number(2))>>

----------------------------------------------------------------------------
(* Claims about core.map *)

\* the errors raised during the first n comparator invocations, in order
RECURSIVE RaisedUpTo(_, _)
RaisedUpTo(log, n) ==
    IF n = 0 THEN <<>> ELSE RaisedUpTo(log, n - 1) \o log[n].raised

\* C2: in map.sort with a key function, the first error raised by the key
\* function or by the comparison of two sort keys is latched; every comparator
\* invocation after one that raised returns Equal without calling the key
\* function and without comparing; and the call returns that first error, or
\* the map when no error was raised.
C2_StickyError ==
    map_call.fn = "sort" =>
        LET log == map_sort.log
            raised == RaisedUpTo(log, Len(log))
        IN  /\ \A n \in 1..Len(log) :
                  Len(RaisedUpTo(log, n - 1)) > 0 =>
                      /\ Len(log[n].calls) = 0
                      /\ ~log[n].compared
                      /\ log[n].ordering = "Equal"
            /\ map_sort.error = IF Len(raised) = 0 THEN <<>> ELSE <<raised[1]>>
            /\ map_call.pc = "done" =>
                  map_result = <<IF Len(raised) = 0 THEN Ok(Map(map_entries))
                                 ELSE Err(raised[1])>>

\* a sort has returned in which one comparator invocation raised two different
\* errors and another invocation followed it
C2_Witness ==
    /\ map_call.fn = "sort"
    /\ map_call.pc = "done"
    /\ LET log == map_sort.log
           raised == RaisedUpTo(log, Len(log))
       IN  /\ Len(log) >= 2
           /\ Len(RaisedUpTo(log, Len(log) - 1)) >= 2
           /\ raised[1] # raised[2]
           /\ map_result = <<Err(raised[1])>>

\* the value map.update hands to the transform function: the one stored under
\* the key before the call
HandedValueIsStored ==
    ContainsKey(map_call.before, map_call.key[1]) =>
        map_call.value = <<MapGet(map_call.before, map_call.key[1])>>

\* C3: for the whole time the transform function of map.update runs, the map
\* has exactly the entries it had before update was called, and the function
\* is handed the value stored before the call.
C3_MapUnchangedWhileTransformRuns ==
    map_call.pc = "update_f" =>
        /\ map_entries = map_call.before
        /\ HandedValueIsStored

\* the key-function calls made for the entry with this key, as the places
\* <<n, i>> of the i-th call of the n-th comparator invocation
KeyFunctionCalls(key) ==
    {p \in (1..Len(map_sort.log)) \X (1..2) :
        /\ p[2] <= Len(map_sort.log[p[1]].calls)
        /\ map_sort.log[p[1]].calls[p[2]].args[1] = key}

\* the comparator invocations an entry took part in
Comparisons(key) ==
    {n \in 1..Len(map_sort.log) : key \in {map_sort.log[n].a, map_sort.log[n].b}}

\* C14: in one map.sort call with a key function, the key function is called
\* at most once for each entry, however many comparator invocations the entry
\* takes part in.
C14_KeyFunctionOncePerEntry ==
    map_call.fn = "sort" =>
        \A key \in MapKeys : Cardinality(KeyFunctionCalls(key)) <= 1

\* a sort has returned in which one entry took part in two comparator
\* invocations and the key function was called for it once
C14_Witness ==
    /\ map_call.fn = "sort"
    /\ map_call.pc = "done"
    /\ Len(map_sort.error) = 0
    /\ \E key \in MapKeys :
          /\ Cardinality(Comparisons(key)) = 2
          /\ Cardinality(KeyFunctionCalls(key)) = 1

\* the entries of s are those of t, in some order
IsPermutation(s, t) ==
    /\ Len(s) = Len(t)
    /\ \A i \in 1..Len(s) : \E j \in 1..Len(t) : s[i] = t[j]
    /\ \A j \in 1..Len(t) : \E i \in 1..Len(s) : s[i] = t[j]

\* entry a may stand before entry b in a map sorted as the call asks: by key,
\* or by the result of the key function
InOrder(a, b) ==
    IF map_call.f = ""
    THEN KeyPartialCmp(a.key, b.key) \in {<<"Less">>, <<"Equal">>}
    ELSE LET key_a == RunFunction(map_call.f, Separate(a.key, a.value))
             key_b == RunFunction(map_call.f, Separate(b.key, b.value))
         IN  /\ key_a.ok
             /\ key_b.ok
             /\ SortCompareValues(key_a.value, key_b.value) \in {Ok("Less"), Ok("Equal")}

\* C15: when map.sort succeeds it returns the map, whose entries are the
\* entries before the call in non-decreasing order of key, or of the result
\* of the key function when one is given.
C15_SortedPermutation ==
    (/\ map_call.fn = "sort"
     /\ map_call.pc = "done"
     /\ map_result[1].ok) =>
        /\ map_result = <<Ok(Map(map_entries))>>
        /\ IsPermutation(map_entries, map_call.before)
        /\ \A i \in 1..(Len(map_entries) - 1) :
              InOrder(map_entries[i], map_entries[i + 1])

\* a sort by key function has succeeded on three entries and has put the last
\* entry first
C15_Witness ==
    /\ map_call.fn = "sort"
    /\ map_call.pc = "done"
    /\ map_call.f = "second"
    /\ map_result[1].ok
    /\ Len(map_entries) = 3
    /\ map_entries[1] = map_call.before[3]
    /\ \E i \in 1..2 : ~InOrder(map_call.before[i], map_call.before[i + 1])

\* a sort by key has succeeded on three entries that were not in order
C15_WitnessByKey ==
    /\ map_call.fn = "sort"
    /\ map_call.pc = "done"
    /\ map_call.f = ""
    /\ map_result[1].ok
    /\ Len(map_entries) = 3
    /\ map_entries # map_call.before

\* the value update is to hand to the transform function: the one stored
\* under the key before the call, or the default, or Null
ValueToTransform ==
    IF ContainsKey(map_call.before, map_call.key[1])
    THEN MapGet(map_call.before, map_call.key[1])
    ELSE IF Len(map_call.default) > 0 THEN map_call.default[1]
    ELSE Null

\* C16: when the transform function succeeds, map.update has handed it the
\* value stored under the key, or the default, or Null; it returns the
\* function's result and has stored it under the key; every other entry is as
\* before, an existing key keeps its place and a new key is the last entry.
C16_UpdateStoresResult ==
    (/\ map_call.fn = "update"
     /\ map_call.pc = "done"
     /\ map_result[1].ok) =>
        LET key == map_call.key[1]
            before == map_call.before
            absent == ~ContainsKey(before, key)
            r == RunFunction(map_call.f, Single(ValueToTransform))
        IN  /\ map_call.value = <<ValueToTransform>>
            /\ map_result = <<r>>
            /\ Len(map_entries) = Len(before) + (IF absent THEN 1 ELSE 0)
            /\ \A i \in 1..Len(before) :
                  map_entries[i] = IF KeyEq(before[i].key, key)
                                   THEN Entry(before[i].key, r.value)
                                   ELSE before[i]
            /\ absent => map_entries[Len(map_entries)] = Entry(key, r.value)

\* update has stored a changed value under the first of two keys
C16_Witness ==
    /\ map_call.fn = "update"
    /\ map_call.pc = "done"
    /\ map_result[1].ok
    /\ Len(map_call.before) = 2
    /\ KeyEq(map_call.before[1].key, map_call.key[1])
    /\ map_entries[1].value # map_call.before[1].value
    /\ map_entries[2] = map_call.before[2]

\* The position (1-based) of the key removed by the last map.remove, 0 when the
\* key was absent
RemovedPosition ==
    IF ContainsKey(map_call.before, map_call.key[1])
    THEN IndexOfKey(map_call.before, map_call.key[1]) ELSE 0

KeysInOrder(data) == [i \in 1..Len(data) |-> data[i].key]

\* C17: map.remove(key) returns the removed value, or Null leaving the map
\* unchanged when the key is absent; the entries before the removed position
\* stay, get_index(i) for every i at or after it returns the entry that was at
\* i + 1, and after any sequence of calls the iteration order is the insertion
\* order of the surviving keys (as the sort last permuted it).
C17_RemoveIsShiftRemoval ==
    /\ KeysInOrder(map_entries) = map_order
    /\ (map_call.fn = "remove" /\ map_call.pc = "done") =>
         LET before == map_call.before
             p == RemovedPosition
         IN  IF p = 0
             THEN /\ map_result = <<Ok(Null)>>
                  /\ map_entries = before
             ELSE /\ map_result = <<Ok(before[p].value)>>
                  /\ Len(map_entries) = Len(before) - 1
                  /\ \A i \in 0..(p - 2) :
                       GetIndex(map_entries, i, Null) = GetIndex(before, i, Null)
                  /\ \A i \in (p - 1)..MaxKeys :
                       GetIndex(map_entries, i, Null) = GetIndex(before, i + 1, Null)

\* a removal of the first of three entries, inserted out of key order
C17_Witness ==
    /\ map_call.fn = "remove"
    /\ map_call.pc = "done"
    /\ Len(map_call.before) = 3
    /\ RemovedPosition = 1
    /\ map_entries[1].key = Number(3)
    /\ map_entries[2].key = Number(1)

\* C30: when the transform function of map.update fails, update returns its
\* error and the map holds the entries it held before the call, in the same
\* order, also when the key was absent and a default was given.
C30_UpdateAtomicOnFailure ==
    (/\ map_call.fn = "update"
     /\ map_call.pc = "done"
     /\ ~map_result[1].ok) =>
        /\ map_result[1] = RunFunction(map_call.f, Single(map_call.value[1]))
        /\ map_entries = map_call.before

\* C31: when map.sort returns an error, the map holds the entries it held
\* before the call in the order they had then.
C31_SortAtomicOnFailure ==
    (/\ map_call.fn = "sort"
     /\ map_call.pc = "done"
     /\ ~map_result[1].ok) =>
        map_entries = map_call.before

\* C34: no core.map operation meets an outstanding mutable borrow of the
\* receiver's data when the receiver is reached again through an alias or a
\* callback: m.extend(m), m.extend(an iterator over m) and m.sort(f) with f
\* reading or writing m are not ended by a refused borrow.
C34_NoBorrowFailure ==
    map_call.pc \notin BorrowFailures

----------------------------------------------------------------------------
(* Claims about the test objects *)

\* the calls on the handle that returned an element
Elements == {i \in 1..Len(obj_yielded) : obj_yielded[i].result # Ok(Null)}

\* C21: next() and next_back() on a bidirectional handle drain one sequence
\* from its two ends: no element is yielded twice, whatever the order of the
\* calls.
C21_NoElementTwice ==
    \A i, j \in Elements :
        i # j => obj_yielded[i].result # obj_yielded[j].result

\* the value read through a name: name.to_number()
to_number(name) == Instance(name).x

\* what a mutating statement makes of the value v of the instance it is applied to
Effect(stmt, v) ==
    CASE stmt.op = "+=" -> v + (IF stmt.rhs.t = "Number" THEN stmt.rhs.n ELSE stmt.rhs.x)
      [] stmt.op = "-=" -> v - (IF stmt.rhs.t = "Number" THEN stmt.rhs.n ELSE stmt.rhs.x)
      [] stmt.op = "*=" -> v * (IF stmt.rhs.t = "Number" THEN stmt.rhs.n ELSE stmt.rhs.x)
      [] stmt.op = "invert" -> 0 - v
      [] stmt.op = "set_all_instances" -> stmt.rhs.x

Mutations == {"+=", "-=", "*=", "invert", "set_all_instances"}

\* x and y = x are the same object, z = copy x is another
SameObject(a, b) == (a = "z") = (b = "z")

\* C26: y = x aliases the instance, so a mutation through either name shows
\* through the other; copy x and deep_copy x are independent instances, so
\* mutations of the copy leave x as it was and mutations through x or y leave
\* the copy as it was.
C26_AliasAndCopy ==
    [][/\ scr_last'.op \in Mutations =>
            \A name \in Names :
                Bound(name) =>
                    to_number(name)' = IF SameObject(name, scr_last'.name)
                                       THEN Effect(scr_last', to_number(name))
                                       ELSE to_number(name)
       /\ scr_last'.op \in {"copy", "deep_copy"} =>
            /\ to_number("z")' = to_number("x")
            /\ to_number("x")' = to_number("x")
       /\ scr_last'.op = "=" =>
            /\ to_number("y")' = to_number("x")
            /\ to_number("x")' = to_number("x")]_vars

\* x, y = x and z = copy x are all bound, the copy was changed last and now
\* differs from x
C26_Witness ==
    /\ Bound("y") /\ Bound("z")
    /\ scr_last.op \in Mutations
    /\ scr_last.name = "z"
    /\ to_number("z") # to_number("x")
    /\ to_number("y") = to_number("x")

----------------------------------------------------------------------------
(* Claims about the poetry example *)

\* the keys of the links
LinkKeys(links) == {links[i].key : i \in 1..Len(links)}

\* C39: next_word never fails: in every state, a Poetry without links
\* included, it returns None or a word and sets previous to what it returns;
\* a returned word is a recorded successor of the former previous word or a
\* key of links.
C39_NextWordNeverFails ==
    poetry_last.op = "next_word" =>
        /\ ~poetry_last.panicked
        /\ poetry_previous = poetry_last.result
        /\ Len(poetry_last.result) > 0 =>
              poetry_last.result[1] \in
                  Successors(poetry_links, poetry_last.before) \cup LinkKeys(poetry_links)

====
